---- MODULE Spec2Model ----
(***************************************************************************)
(* vasp_init: the structure-file codec (read_poscar / write_poscar), the   *)
(* trajectory reader (read_pdb_last_frame), the ion-merge engine           *)
(* (merge_ions_into_poscar) and the rigid-molecule insertion engine        *)
(* (add_ammonia_to_poscar / add_hydrogen_to_poscar).                       *)
(*                                                                         *)
(* Numbers.  Python floats are modelled as exact rationals <<n, d>> with   *)
(* d > 0 in lowest terms; the inputs are chosen so that every square and   *)
(* cube root the code takes is rational.  Rounding in the last binary      *)
(* digit of a double is outside the model.                                 *)
(*                                                                         *)
(* Text.  A Python str is a sequence of one-character strings; a line of   *)
(* a file that the code tokenises with split() is the sequence of its      *)
(* tokens.                                                                 *)
(***************************************************************************)
EXTENDS Integers, Sequences, FiniteSets, TLC

\* ------------------------------------------------------------------------
\* Rational arithmetic (the float operations of the source)
\* ------------------------------------------------------------------------
RECURSIVE Gcd(_, _)
Gcd(a, b) == IF b = 0 THEN a ELSE Gcd(b, a % b)

\* The fraction n / d in lowest terms, the denominator positive
Rat(n, d) ==
    LET s == IF d < 0 THEN -1 ELSE 1
        g == Gcd(IF n < 0 THEN -n ELSE n, IF d < 0 THEN -d ELSE d)
    IN  <<(s * n) \div g, (s * d) \div g>>

Q(n) == <<n, 1>>
RAdd(a, b) == Rat(a[1] * b[2] + b[1] * a[2], a[2] * b[2])
RNeg(a) == <<-a[1], a[2]>>
RSub(a, b) == RAdd(a, RNeg(b))
RMul(a, b) == Rat(a[1] * b[1], a[2] * b[2])
RDiv(a, b) == Rat(a[1] * b[2], a[2] * b[1])
RLt(a, b) == a[1] * b[2] < b[1] * a[2]
RAbs(a) == <<IF a[1] < 0 THEN -a[1] ELSE a[1], a[2]>>
\* math.floor
RFloor(a) == Q(a[1] \div a[2])

\* ------------------------------------------------------------------------
\* geometry.py
\* ------------------------------------------------------------------------
LowerCase == <<"a","b","c","d","e","f","g","h","i","j","k","l","m",
               "n","o","p","q","r","s","t","u","v","w","x","y","z">>
UpperCase == <<"A","B","C","D","E","F","G","H","I","J","K","L","M",
               "N","O","P","Q","R","S","T","U","V","W","X","Y","Z">>
IsLower(c) == \E i \in DOMAIN LowerCase : LowerCase[i] = c
IsUpper(c) == \E i \in DOMAIN UpperCase : UpperCase[i] = c
IsAlpha(c) == IsLower(c) \/ IsUpper(c)
\* str.upper / str.lower on one character
ToUpper(c) ==
    IF IsLower(c) THEN UpperCase[CHOOSE i \in DOMAIN LowerCase : LowerCase[i] = c] ELSE c
ToLower(c) ==
    IF IsUpper(c) THEN LowerCase[CHOOSE i \in DOMAIN UpperCase : UpperCase[i] = c] ELSE c
\* str.lower
Lower(s) == [i \in DOMAIN s |-> ToLower(s[i])]

\* re.sub(r"[^A-Za-z]", "", s)
RECURSIVE OnlyAlpha(_)
OnlyAlpha(s) ==
    IF s = <<>> THEN <<>>
    ELSE (IF IsAlpha(Head(s)) THEN <<Head(s)>> ELSE <<>>) \o OnlyAlpha(Tail(s))

_normalize_element(sym) ==
    LET s == OnlyAlpha(sym)
    IN  IF s = <<>> THEN <<"X">>
        ELSE IF Len(s) = 1 THEN <<ToUpper(s[1])>>
        ELSE <<ToUpper(s[1])>> \o Lower(Tail(s))

det3(m) ==
    LET a == m[1][1]  b == m[1][2]  c == m[1][3]
        d == m[2][1]  e == m[2][2]  f == m[2][3]
        g == m[3][1]  h == m[3][2]  i == m[3][3]
    IN  RAdd(RSub(RMul(a, RSub(RMul(e, i), RMul(f, h))),
                  RMul(b, RSub(RMul(d, i), RMul(f, g)))),
             RMul(c, RSub(RMul(d, h), RMul(e, g))))

\* The outcome of a call: the value returned, or the exception raised.
Ok(x) == [err |-> "", v |-> x]
Err(kind) == [err |-> kind, v |-> <<>>]
\* The structure an engine call returns, with the atoms it appended in the
\* order of appending, each with the species the code appends it under.
OkWith(x, appended) == [err |-> "", v |-> x, appended |-> appended]
IsErr(r) == r.err # ""

\* The cofactors A..I of mat_inv3 (lines 22-30), laid out as the rows of the
\* inverse before the division by det.
Cofactors(m) ==
    << <<RSub(RMul(m[2][2], m[3][3]), RMul(m[2][3], m[3][2])),
         RNeg(RSub(RMul(m[1][2], m[3][3]), RMul(m[1][3], m[3][2]))),
         RSub(RMul(m[1][2], m[2][3]), RMul(m[1][3], m[2][2]))>>,
       <<RNeg(RSub(RMul(m[2][1], m[3][3]), RMul(m[2][3], m[3][1]))),
         RSub(RMul(m[1][1], m[3][3]), RMul(m[1][3], m[3][1])),
         RNeg(RSub(RMul(m[1][1], m[2][3]), RMul(m[1][3], m[2][1])))>>,
       <<RSub(RMul(m[2][1], m[3][2]), RMul(m[2][2], m[3][1])),
         RNeg(RSub(RMul(m[1][1], m[3][2]), RMul(m[1][2], m[3][1]))),
         RSub(RMul(m[1][1], m[2][2]), RMul(m[1][2], m[2][1]))>> >>

\* Lines 32-39 of mat_inv3.  |det| < 1e-14 is det = 0 for the rationals of
\* the model.
InverseOf(cof, det) ==
    IF det = Q(0) THEN Err("SingularMatrix")
    ELSE Ok([r \in 1..3 |-> [c \in 1..3 |-> RDiv(cof[r][c], det)]])

\* det = a*A + b*B + c*C (line 31)
DetOf(m, cof) ==
    RAdd(RAdd(RMul(m[1][1], cof[1][1]), RMul(m[1][2], cof[2][1])),
         RMul(m[1][3], cof[3][1]))

mat_inv3(m) == InverseOf(Cofactors(m), DetOf(m, Cofactors(m)))

mat_vec(m, v) ==
    [i \in 1..3 |-> RAdd(RAdd(RMul(m[i][1], v[1]), RMul(m[i][2], v[2])),
                         RMul(m[i][3], v[3]))]

\* A variant that leaves the coordinates as they are.
VecKeep(frac) == frac
vec_mod1(frac) == [i \in 1..3 |-> RSub(frac[i], RFloor(frac[i]))]

\* ------------------------------------------------------------------------
\* io.py: the structure (class Poscar) and the text of a structure file
\* ------------------------------------------------------------------------
\* Optional[...]: None, or a value.
None == [some |-> FALSE, v |-> <<>>]
Some(x) == [some |-> TRUE, v |-> x]

\* One whitespace-separated token of a line: an integer literal (int() and
\* float() accept it), a decimal literal (float() accepts it), or a word.
IntTok(n) == [k |-> "i", q |-> Q(n), w |-> <<>>]
NumTok(x) == [k |-> "f", q |-> x, w |-> <<>>]
WordTok(w) == [k |-> "w", q |-> Q(0), w |-> w]
IsFloatTok(t) == t.k \in {"i", "f"}

\* str.strip() of a raw line
RECURSIVE LStrip(_)
LStrip(s) == IF s # <<>> /\ Head(s) = " " THEN LStrip(Tail(s)) ELSE s
RECURSIVE RStrip(_)
RStrip(s) ==
    IF s # <<>> /\ s[Len(s)] = " " THEN RStrip(SubSeq(s, 1, Len(s) - 1)) ELSE s
Strip(s) == LStrip(RStrip(s))

\* line.strip().lower()[:1] of a tokenised line
FirstLower(line) ==
    IF line = <<>> \/ line[1].k # "w" THEN "" ELSE ToLower(line[1].w[1])

_is_int_tokens(toks) == \A i \in DOMAIN toks : toks[i].k = "i"

RECURSIVE SumSeq(_)
SumSeq(s) == IF s = <<>> THEN 0 ELSE Head(s) + SumSeq(Tail(s))
total_atoms(p) == SumSeq(p.counts)

\* x ** (1.0/3.0), for the cubes the model uses
CubeRoot(x) ==
    CHOOSE r \in {Rat(n, d) : n \in 0..4, d \in 1..4} : RMul(r, RMul(r, r)) = x

ScaleMat(L, s) == [r \in 1..3 |-> [c \in 1..3 |-> RMul(L[r][c], s)]]

\* Poscar.lattice_cart
lattice_cart(p) ==
    IF RLt(Q(0), p.scale) THEN Ok(ScaleMat(p.lattice, p.scale))
    ELSE LET target_vol == RAbs(p.scale)
             vol == det3(p.lattice)
         IN  IF ~RLt(Q(0), vol) THEN Err("InvalidVolume")
             ELSE Ok(ScaleMat(p.lattice, CubeRoot(RDiv(target_vol, vol))))

\* `L = p.lattice_cart(); Linv = mat_inv3(L)` (lines 120-121 and 277-278;
\* molecules.py lines 121-122 and 327-328): the inverse, or the error raised
InverseLattice(p) ==
    IF IsErr(lattice_cart(p)) THEN lattice_cart(p) ELSE mat_inv3(lattice_cart(p).v)

\* The selective-dynamics flags of one coordinate line: toks[3:6]
LineFlags(toks) == [i \in 1..3 |-> toks[i + 3].k = "w" /\ ToUpper(toks[i + 3].w[1]) = "T"]
TTT == <<TRUE, TRUE, TRUE>>

\* One pass of the coordinate loop of read_poscar (lines 130-137) put before
\* the outcome of the passes after it.
ConsCoord(fcoord, fl, rest) ==
    IF IsErr(rest) THEN rest
    ELSE Ok([frac |-> <<fcoord>> \o rest.v.frac, flags |-> fl \o rest.v.flags])

\* The coordinate loop of read_poscar (lines 123-137), from line idx on, nat
\* atoms to go: the coordinates and the flags collected, or the error raised.
RECURSIVE ReadCoords(_, _, _, _, _, _)
ReadCoords(lines, idx, nat, Linv, direct, sel) ==
    IF nat <= 0 THEN Ok([frac |-> <<>>, flags |-> <<>>])
    ELSE IF idx > Len(lines) THEN Err("TruncatedFile")
    ELSE IF Len(lines[idx]) < 3 THEN Err("CoordTooFew")
    ELSE IF \E i \in 1..3 : ~IsFloatTok(lines[idx][i]) THEN Err("NotANumber")
    ELSE ConsCoord(
             IF direct THEN <<lines[idx][1].q, lines[idx][2].q, lines[idx][3].q>>
             ELSE mat_vec(Linv, <<lines[idx][1].q, lines[idx][2].q, lines[idx][3].q>>),
             IF sel /\ Len(lines[idx]) >= 6 THEN <<LineFlags(lines[idx])>> ELSE <<>>,
             ReadCoords(lines, idx + 1, nat - 1, Linv, direct, sel))

\* The end of read_poscar (lines 139-145): p0 with the coordinates read
ReadDone(p0, nat, rc) ==
    IF IsErr(rc) THEN rc
    ELSE Ok([p0 EXCEPT !.frac_coords = rc.v.frac,
                       !.flags = IF ~p0.has_selective THEN None
                                 ELSE IF rc.v.flags # <<>> THEN Some(rc.v.flags)
                                 ELSE Some([i \in 1..nat |-> TTT])])

\* A variant that inverts the lattice only for a Cartesian file.
ReadWithInverseLazy(lines, idx, p0, Linv) ==
    IF IsErr(Linv) /\ p0.coord_type # "Direct" THEN Linv
    ELSE ReadDone(p0, total_atoms(p0),
                  ReadCoords(lines, idx, total_atoms(p0), Linv.v,
                             p0.coord_type = "Direct", p0.has_selective))

\* read_poscar from the coordinate loop on (lines 123-145)
ReadWithInverse(lines, idx, p0, Linv) ==
    IF IsErr(Linv) THEN Linv
    ELSE ReadDone(p0, total_atoms(p0),
                  ReadCoords(lines, idx, total_atoms(p0), Linv.v,
                             p0.coord_type = "Direct", p0.has_selective))

\* The coordinate-type line of read_poscar (lines 106-113), at line tidx
ReadTyped(lines, tidx, p0) ==
    IF tidx > Len(lines) THEN Err("IndexError")
    ELSE IF FirstLower(lines[tidx]) = "d"
    THEN ReadWithInverse(lines, tidx + 1, [p0 EXCEPT !.coord_type = "Direct"],
                         InverseLattice(p0))
    ELSE IF FirstLower(lines[tidx]) \in {"c", "k"}
    THEN ReadWithInverse(lines, tidx + 1, [p0 EXCEPT !.coord_type = "Cartesian"],
                         InverseLattice(p0))
    ELSE Err("UnknownCoordinateType")

\* The optional `Selective dynamics` line of read_poscar (lines 99-104), at
\* line cidx, the line after the counts line
ReadBody(lines, cidx, p0) ==
    IF cidx > Len(lines) THEN Err("IndexError")
    ELSE IF FirstLower(lines[cidx]) = "s"
    THEN ReadTyped(lines, cidx + 1, [p0 EXCEPT !.has_selective = TRUE])
    ELSE ReadTyped(lines, cidx, p0)

\* One lattice row of read_poscar (lines 68-71): the error it raises, or "".
LatticeRowErr(toks) ==
    IF Len(toks) < 3 THEN "MalformedLattice"
    ELSE IF \E c \in 1..3 : ~IsFloatTok(toks[c]) THEN "NotANumber"
    ELSE ""

\* Poscar.__init__ with the comment, scale and lattice of lines 61-73
NewPoscar(comment, scale, lattice) ==
    [comment |-> comment, scale |-> scale, lattice |-> lattice,
     symbols |-> <<>>, counts |-> <<>>, has_selective |-> FALSE,
     coord_type |-> "Direct", frac_coords |-> <<>>, flags |-> None]

\* A variant that keeps every symbol of the symbols line.
ReadSpeciesAll(lines, p0) ==
    IF lines[6] = <<>> THEN Err("BlankBeforeCounts")
    ELSE IF _is_int_tokens(lines[6])
    THEN ReadBody(lines, 7,
             [p0 EXCEPT !.counts = [i \in DOMAIN lines[6] |-> lines[6][i].q[1]]])
    ELSE IF ~_is_int_tokens(lines[7]) THEN Err("MissingCountsLine")
    ELSE IF Len(lines[6]) < Len(lines[7]) THEN Err("SymbolCountMismatch")
    ELSE ReadBody(lines, 8,
             [p0 EXCEPT !.symbols = [i \in DOMAIN lines[6] |->
                                       _normalize_element(IF lines[6][i].k = "w"
                                                          THEN lines[6][i].w ELSE <<>>)],
                        !.counts = [i \in DOMAIN lines[7] |-> lines[7][i].q[1]]])

\* The symbols and counts lines of read_poscar (lines 75-97)
ReadSpecies(lines, p0) ==
    IF lines[6] = <<>> THEN Err("BlankBeforeCounts")
    ELSE IF _is_int_tokens(lines[6])
    THEN ReadBody(lines, 7,
             [p0 EXCEPT !.counts = [i \in DOMAIN lines[6] |-> lines[6][i].q[1]]])
    ELSE IF ~_is_int_tokens(lines[7]) THEN Err("MissingCountsLine")
    ELSE IF Len(lines[6]) < Len(lines[7]) THEN Err("SymbolCountMismatch")
    ELSE ReadBody(lines, 8,
             [p0 EXCEPT !.symbols = [i \in 1..Len(lines[7]) |->
                                       _normalize_element(IF lines[6][i].k = "w"
                                                          THEN lines[6][i].w ELSE <<>>)],
                        !.counts = [i \in DOMAIN lines[7] |-> lines[7][i].q[1]]])

\* read_poscar: the structure parsed from the lines of a file, or the error.
\* lines[1] is the raw comment line; every other line is its token sequence.
read_poscar(lines) ==
    IF Len(lines) < 8 THEN Err("TooShort")
    ELSE IF Len(lines[2]) # 1 \/ ~IsFloatTok(lines[2][1]) THEN Err("NotANumber")
    ELSE IF \E r \in 3..5 : LatticeRowErr(lines[r]) # ""
    THEN Err(LatticeRowErr(lines[CHOOSE r \in 3..5 :
                 /\ LatticeRowErr(lines[r]) # ""
                 /\ \A r2 \in 3..(r - 1) : LatticeRowErr(lines[r2]) = ""]))
    ELSE ReadSpecies(lines,
             NewPoscar(Strip(lines[1]), lines[2][1].q,
                       [r \in 1..3 |-> [c \in 1..3 |-> lines[r + 2][c].q]]))

\* f"{x: .16f}" read back by float(): x rounded to FmtDigits decimals.
FmtDigits == 4
RECURSIVE Pow10(_)
Pow10(n) == IF n = 0 THEN 1 ELSE 10 * Pow10(n - 1)
Fmt16(x) ==
    LET den == Pow10(FmtDigits)
    IN  Rat((2 * x[1] * den + x[2]) \div (2 * x[2]), den)

\* The characters of a str literal
Chars(str) ==
    CASE str = "Direct" -> <<"D","i","r","e","c","t">>
      [] str = "Cartesian" -> <<"C","a","r","t","e","s","i","a","n">>
      [] str = "Selective" -> <<"S","e","l","e","c","t","i","v","e">>
      [] str = "dynamics" -> <<"d","y","n","a","m","i","c","s">>
      [] str = "T" -> <<"T">>
      [] str = "F" -> <<"F">>
      [] str = "Si" -> <<"S","i">>
      [] str = "si" -> <<"s","i">>
      [] str = "O" -> <<"O">>
      [] str = "Na" -> <<"N","a">>
      [] str = "NA" -> <<"N","A">>
      [] str = "Cl" -> <<"C","l">>
      [] str = "H1" -> <<"H","1">>
      [] str = "H2" -> <<"H","2">>
      [] str = "N_1" -> <<"N","_","1">>
      [] str = "H_1" -> <<"H","_","1">>
      [] str = "H_2" -> <<"H","_","2">>
      [] str = "H_3" -> <<"H","_","3">>
      [] str = "M_1" -> <<"M","_","1">>
      [] str = "#" -> <<"#">>
      [] str = "atomic" -> <<"a","t","o","m","i","c">>
      [] str = "positions" -> <<"p","o","s","i","t","i","o","n","s">>
      [] str = "MODEL" -> <<"M","O","D","E","L">>
      [] str = "ENDMDL" -> <<"E","N","D","M","D","L">>
      [] str = "ATOM" -> <<"A","T","O","M">>
      [] str = "HETATM" -> <<"H","E","T","A","T","M">>
      [] str = "REMARK" -> <<"R","E","M","A","R","K">>
      [] str = "+" -> <<"+">>
      [] str = "-" -> <<"-">>
      [] str = "PLUS" -> <<"P","L","U","S">>
      [] str = "cartesian" -> <<"c","a","r","t","e","s","i","a","n">>
      [] str = "Kartesian" -> <<"K","a","r","t","e","s","i","a","n">>
      [] str = "selective" -> <<"s","e","l","e","c","t","i","v","e">>
      [] str = "Fractional" -> <<"F","r","a","c","t","i","o","n","a","l">>
      [] str = "true" -> <<"t","r","u","e">>
      [] str = "t" -> <<"t">>
      [] str = "f" -> <<"f">>
      [] str = "o" -> <<"o">>
      [] str = "H" -> <<"H">>
      [] str = "x" -> <<"x">>
      [] str = "title" -> <<"t","i","t","l","e">>
      [] str = "bonds" -> <<"b","o","n","d","s">>
      [] str = "H_8" -> <<"H","_","8">>
      [] str = "H_9" -> <<"H","_","9">>
      [] str = "Atomic" -> <<"A","t","o","m","i","c">>

\* One coordinate line of write_poscar (lines 172-177)
CoordLine(p, c, i) ==
    [j \in 1..3 |-> NumTok(Fmt16(c[j]))]
    \o (IF p.has_selective /\ p.flags.some /\ i <= Len(p.flags.v)
        THEN [j \in 1..3 |-> WordTok(Chars(IF p.flags.v[i][j] THEN "T" ELSE "F"))]
        ELSE <<>>)

\* coords of write_poscar (lines 167-170)
OutCoords(p, oct, L) ==
    IF ToLower(oct[1]) = "d" THEN p.frac_coords
    ELSE [i \in DOMAIN p.frac_coords |-> mat_vec(L, p.frac_coords[i])]

\* The lines write_poscar writes (lines 153-177), W being the lattice rows
\* written: the scaled lattice L of line 150
WrittenLines(p, oct, W, coords) ==
    <<p.comment, <<NumTok(Fmt16(p.scale))>>>>
    \o [r \in 1..3 |-> [c \in 1..3 |-> NumTok(Fmt16(W[r][c]))]]
    \o (IF p.symbols # <<>>
        THEN <<[i \in DOMAIN p.symbols |-> WordTok(p.symbols[i])]>>
        ELSE <<>>)
    \o <<[i \in DOMAIN p.counts |-> IntTok(p.counts[i])]>>
    \o (IF p.has_selective
        THEN <<<<WordTok(Chars("Selective")), WordTok(Chars("dynamics"))>>>>
        ELSE <<>>)
    \o <<<<WordTok(oct)>>>>
    \o [i \in DOMAIN coords |-> CoordLine(p, coords[i], i)]

\* write_poscar from `L = p.lattice_cart()` on (lines 150-177)
WriteWithLattice(p, oct, L) ==
    IF IsErr(L) THEN L
    ELSE Ok(WrittenLines(p, oct, L.v, OutCoords(p, oct, L.v)))

\* write_poscar: the lines written, or the error raised before the file is
\* opened.  out_coord_type is a str, "" for None.
write_poscar(p, out_coord_type) ==
    WriteWithLattice(p,
        IF out_coord_type # <<>> THEN out_coord_type ELSE Chars(p.coord_type),
        lattice_cart(p))

\* ------------------------------------------------------------------------
\* io.py: merge_ions_into_poscar
\* ------------------------------------------------------------------------
\* PdbAtom.__init__
PdbAtom(element, x, y, z) == [element |-> _normalize_element(element), xyz |-> <<x, y, z>>]

\* A variant that finds no species in a list.
ContainsNever(seq, x) == FALSE
Contains(seq, x) == \E i \in DOMAIN seq : seq[i] = x
\* list.index
IndexOf(seq, x) == CHOOSE i \in DOMAIN seq : seq[i] = x /\ \A j \in 1..(i - 1) : seq[j] # x

\* seen_order (lines 299-302): the distinct entries of syms, first seen first
RECURSIVE SeenOrder(_, _)
SeenOrder(syms, seen) ==
    IF syms = <<>> THEN seen
    ELSE SeenOrder(Tail(syms),
                   IF Contains(seen, Head(syms)) THEN seen ELSE Append(seen, Head(syms)))

\* sym_to_coords[sym] (lines 289-291): the atoms of species sym, in list order
RECURSIVE CoordsOf(_, _, _)
CoordsOf(syms, fracs, sym) ==
    IF syms = <<>> THEN <<>>
    ELSE (IF Head(syms) = sym THEN <<[sym |-> sym, f |-> Head(fracs)]>> ELSE <<>>)
         \o CoordsOf(Tail(syms), Tail(fracs), sym)

\* The loop of lines 304-314 over seen_order.
RECURSIVE MergeCounts(_, _, _, _, _)
MergeCounts(order, syms, fracs, new_symbols, new_counts) ==
    IF order = <<>> THEN [symbols |-> new_symbols, counts |-> new_counts]
    ELSE IF new_symbols # <<>> /\ Contains(new_symbols, Head(order))
    THEN MergeCounts(Tail(order), syms, fracs, new_symbols,
             [new_counts EXCEPT ![IndexOf(new_symbols, Head(order))] =
                                    @ + Len(CoordsOf(syms, fracs, Head(order)))])
    ELSE IF new_symbols # <<>>
    THEN MergeCounts(Tail(order), syms, fracs, Append(new_symbols, Head(order)),
             Append(new_counts, Len(CoordsOf(syms, fracs, Head(order)))))
    ELSE MergeCounts(Tail(order), syms, fracs, new_symbols,
             Append(new_counts, Len(CoordsOf(syms, fracs, Head(order)))))

\* ordering, flattened (lines 317-327): for each sym of `over`, its atoms
RECURSIVE MergeOrdering(_, _, _)
MergeOrdering(over, syms, fracs) ==
    IF over = <<>> THEN <<>>
    ELSE CoordsOf(syms, fracs, Head(over)) \o MergeOrdering(Tail(over), syms, fracs)

\* The flags of the framework atoms (lines 335-340)
FrameworkFlags(p, framework_flags) ==
    IF framework_flags.some THEN [i \in DOMAIN p.frac_coords |-> framework_flags.v]
    ELSE IF p.has_selective /\ p.flags.some THEN p.flags.v
    ELSE [i \in DOMAIN p.frac_coords |-> TTT]

\* A variant that gives every added atom (True, True, True).
AddedFlagsDefault(framework, n, new_flags) ==
    framework \o [i \in 1..(n - Len(framework)) |-> TTT]
\* new_flags extended to n entries with the flags of the added atoms
\* (lines 343-345)
AddedFlags(framework, n, new_flags) ==
    framework \o [i \in 1..(n - Len(framework)) |->
                     IF new_flags.some THEN new_flags.v ELSE TTT]

\* ion_frac (lines 280-286)
IonFrac(Linv, ions, wrap) ==
    [i \in DOMAIN ions |->
        IF wrap THEN vec_mod1(mat_vec(Linv, ions[i].xyz))
        ELSE mat_vec(Linv, ions[i].xyz)]
\* ion_symbols (line 287)
IonSymbols(ions) == [i \in DOMAIN ions |-> _normalize_element(ions[i].element)]

\* The atoms merge_ions_into_poscar appends, in the order it appends them,
\* each with its species: ordering of lines 316-327.
MergeAppended(new_symbols, seen_order, ion_symbols, ion_frac) ==
    IF new_symbols # <<>> THEN MergeOrdering(new_symbols, ion_symbols, ion_frac)
    ELSE MergeOrdering(seen_order, ion_symbols, ion_frac)

\* A variant that enables selective dynamics only when flags are passed.
EnableSelectiveAsked(p, flags, framework_flags) == flags.some \/ framework_flags.some
\* enable_selective (line 330; molecules.py lines 171, 377)
EnableSelective(p, flags, framework_flags) ==
    p.has_selective \/ flags.some \/ framework_flags.some

\* A variant that wraps the coordinates of the framework into the cell.
NewFracWrapped(p, appended) ==
    [i \in DOMAIN p.frac_coords |-> vec_mod1(p.frac_coords[i])]
        \o [i \in DOMAIN appended |-> appended[i].f]
\* new_frac (lines 316, 326-327)
NewFrac(p, appended) == p.frac_coords \o [i \in DOMAIN appended |-> appended[i].f]

\* The structure built at the end of merge_ions_into_poscar (lines 329-359)
\* and, in the same words, of add_ammonia_to_poscar (molecules.py lines
\* 170-202) and add_hydrogen_to_poscar (lines 376-408): nc holds new_symbols
\* and new_counts, appended the atoms added to new_frac.
BuildOut(p, nc, appended, flags, framework_flags) ==
    OkWith([comment |-> p.comment, scale |-> p.scale, lattice |-> p.lattice,
            symbols |-> nc.symbols, counts |-> nc.counts,
            has_selective |-> EnableSelective(p, flags, framework_flags),
            coord_type |-> p.coord_type,
            frac_coords |-> NewFrac(p, appended),
            flags |-> IF EnableSelective(p, flags, framework_flags)
                      THEN Some(AddedFlags(FrameworkFlags(p, framework_flags),
                                           Len(NewFrac(p, appended)), flags))
                      ELSE None],
           appended)

\* merge_ions_into_poscar from new_symbols / new_counts on (lines 316-359)
MergeCounted(p, nc, seen_order, ion_symbols, ion_frac, ion_flags, framework_flags) ==
    BuildOut(p, nc, MergeAppended(nc.symbols, seen_order, ion_symbols, ion_frac),
             ion_flags, framework_flags)

\* A variant that counts a group once per atom given, not once per species.
MergeIonsEach(p, ion_symbols, ion_frac, ion_flags, framework_flags) ==
    MergeCounted(p,
        MergeCounts(ion_symbols, ion_symbols, ion_frac, p.symbols, p.counts),
        SeenOrder(ion_symbols, <<>>), ion_symbols, ion_frac, ion_flags, framework_flags)
\* merge_ions_into_poscar from ion_frac / ion_symbols on (lines 289-359)
MergeIons(p, ion_symbols, ion_frac, ion_flags, framework_flags) ==
    MergeCounted(p,
        MergeCounts(SeenOrder(ion_symbols, <<>>), ion_symbols, ion_frac,
                    p.symbols, p.counts),
        SeenOrder(ion_symbols, <<>>), ion_symbols, ion_frac, ion_flags, framework_flags)

\* merge_ions_into_poscar from the ion loop on (lines 280-359)
MergeWithInverse(p, ions, wrap, ion_flags, framework_flags, Linv) ==
    IF IsErr(Linv) THEN Linv
    ELSE MergeIons(p, IonSymbols(ions), IonFrac(Linv.v, ions, wrap),
                   ion_flags, framework_flags)

\* `if not ions: return p` (lines 274-275), then the rest
merge_ions_into_poscar(p, ions, wrap, ion_flags, framework_flags) ==
    IF ions = <<>> THEN OkWith(p, <<>>)
    ELSE MergeWithInverse(p, ions, wrap, ion_flags, framework_flags, InverseLattice(p))

\* ------------------------------------------------------------------------
\* io.py: read_pdb_last_frame
\* ------------------------------------------------------------------------
\* A line of a trajectory file is a record: rec, the text of columns 1-6
\* stripped; fixed, the three floats of columns 31-54 (None when float()
\* rejects one of them); toks, the tokens of the line; elem, columns 77-78
\* stripped; name, columns 13-16 stripped.

\* _element_from_pdb_line
_element_from_pdb_line(line) ==
    IF line.elem # <<>> THEN line.elem
    ELSE LET name == line.name IN
         IF name = <<>> THEN <<"X">>
         ELSE IF Len(name) >= 2 /\ IsAlpha(name[1]) /\ IsLower(name[2])
              THEN SubSeq(name, 1, 2)
         ELSE IF \E i \in DOMAIN name : IsAlpha(name[i])
              THEN <<name[CHOOSE i \in DOMAIN name :
                          IsAlpha(name[i]) /\ \A j \in 1..(i - 1) : ~IsAlpha(name[j])]>>
         ELSE <<name[1]>>

\* coords of lines 233-239: the tokens float() accepts, in order
RECURSIVE FloatToks(_)
FloatToks(toks) ==
    IF toks = <<>> THEN <<>>
    ELSE (IF IsFloatTok(Head(toks)) THEN <<Head(toks).q>> ELSE <<>>) \o FloatToks(Tail(toks))

\* The atom an ATOM/HETATM line appends to current (lines 227-244): a
\* one-element sequence, or the empty sequence when the line is skipped.
AtomOfLine(line) ==
    LET coords == FloatToks(line.toks) IN
    IF line.fixed.some
    THEN <<PdbAtom(_element_from_pdb_line(line),
                   line.fixed.v[1], line.fixed.v[2], line.fixed.v[3])>>
    ELSE IF Len(coords) < 3 THEN <<>>
    ELSE <<PdbAtom(_element_from_pdb_line(line), coords[1], coords[2], coords[3])>>

\* The loop of lines 211-244 from line i on; st holds atoms_frames, current,
\* in_model and have_model.
RECURSIVE PdbScan(_, _, _)
PdbScan(lines, i, st) ==
    IF i > Len(lines) THEN st
    ELSE LET rec == [k \in DOMAIN lines[i].rec |-> ToUpper(lines[i].rec[k])] IN
         IF rec = <<"M","O","D","E","L">>
         THEN PdbScan(lines, i + 1,
                  [atoms_frames |-> IF st.in_model
                                    THEN Append(st.atoms_frames, st.current)
                                    ELSE st.atoms_frames,
                   current |-> IF st.in_model THEN <<>> ELSE st.current,
                   in_model |-> TRUE, have_model |-> TRUE])
         ELSE IF rec = <<"E","N","D","M","D","L">>
         THEN PdbScan(lines, i + 1,
                  IF st.in_model
                  THEN [st EXCEPT !.atoms_frames = Append(@, st.current),
                                  !.current = <<>>, !.in_model = FALSE]
                  ELSE st)
         ELSE IF rec = <<"A","T","O","M">> \/ rec = <<"H","E","T","A","T","M">>
         THEN PdbScan(lines, i + 1, [st EXCEPT !.current = @ \o AtomOfLine(lines[i])])
         ELSE PdbScan(lines, i + 1, st)

\* idx of line 251
ResolveIndex(model_index, n) ==
    IF model_index >= 0 THEN model_index ELSE n - 1

\* Lines 246-248: the frame left open at the end of the file is closed.
CloseLast(st) ==
    [st EXCEPT !.atoms_frames = IF st.have_model /\ st.in_model
                                THEN Append(@, st.current) ELSE @]

\* The frames read_pdb_last_frame has built when it selects one (line 251).
PdbFrames(lines) ==
    CloseLast(PdbScan(lines, 1, [atoms_frames |-> <<>>, current |-> <<>>,
                                 in_model |-> FALSE, have_model |-> FALSE]))

\* A variant that applies the index to the atoms of a file without frames.
SelectFrameIndexed(st, model_index) ==
    IF ~st.have_model /\ model_index <= 0 THEN Ok(st.current)
    ELSE IF ~st.have_model THEN Err("FrameIndexOutOfRange")
    ELSE IF st.atoms_frames = <<>> THEN Ok(<<>>)
    ELSE Ok(st.atoms_frames[Len(st.atoms_frames)])
\* Lines 246-256: the atoms returned for the frames built, or the IndexError
SelectFrame(st, model_index) ==
    IF ~st.have_model THEN Ok(st.current)
    ELSE IF st.atoms_frames = <<>> THEN Ok(<<>>)
    ELSE IF \/ ResolveIndex(model_index, Len(st.atoms_frames)) < 0
            \/ ResolveIndex(model_index, Len(st.atoms_frames)) >= Len(st.atoms_frames)
    THEN Err("FrameIndexOutOfRange")
    ELSE Ok(st.atoms_frames[ResolveIndex(model_index, Len(st.atoms_frames)) + 1])

read_pdb_last_frame(lines, model_index) == SelectFrame(PdbFrames(lines), model_index)

\* ------------------------------------------------------------------------
\* molecules.py
\* ------------------------------------------------------------------------
StartsWith(w, pre) == Len(w) >= Len(pre) /\ SubSeq(w, 1, Len(pre)) = pre

\* line.strip().lower().startswith('# atomic positions') of a tokenised line
IsHeader(toks) ==
    /\ Len(toks) >= 3
    /\ \A i \in 1..3 : toks[i].k = "w"
    /\ toks[1].w = <<"#">>
    /\ Lower(toks[2].w) = <<"a","t","o","m","i","c">>
    /\ StartsWith(Lower(toks[3].w), <<"p","o","s","i","t","i","o","n","s">>)

\* The row loop of parse_def_ammonia / parse_def_hydrogen (lines 26-41,
\* 223-239) from line idx on; prefixes are the name prefixes kept.
RECURSIVE DefRows(_, _, _)
DefRows(lines, idx, prefixes) ==
    IF idx > Len(lines) THEN <<>>
    ELSE LET parts == lines[idx] IN
         IF parts = <<>> THEN <<>>
         ELSE IF parts[1].k = "w" /\ parts[1].w[1] = "#" THEN <<>>
         ELSE IF \/ Len(parts) < 5
                 \/ \E c \in 3..5 : ~IsFloatTok(parts[c])
                 \/ parts[2].k # "w"
                 \/ \A q \in prefixes : ~StartsWith(parts[2].w, q)
              THEN DefRows(lines, idx + 1, prefixes)
         ELSE <<[name |-> parts[2].w, xyz |-> <<parts[3].q, parts[4].q, parts[5].q>>]>>
              \o DefRows(lines, idx + 1, prefixes)

\* The line after the header (lines 17-21 / 214-218)
StartIdx(lines) ==
    1 + (CHOOSE i \in DOMAIN lines :
            IsHeader(lines[i]) /\ \A j \in 1..(i - 1) : ~IsHeader(lines[j]))

\* parse_def_ammonia / parse_def_hydrogen, which differ in the prefixes kept
ParseDef(lines, prefixes) ==
    IF ~\E i \in DOMAIN lines : IsHeader(lines[i]) THEN Err("NoHeader")
    ELSE IF DefRows(lines, StartIdx(lines), prefixes) = <<>> THEN Err("NoMatchingAtoms")
    ELSE Ok(DefRows(lines, StartIdx(lines), prefixes))

N_ == <<"N", "_">>
H_ == <<"H", "_">>
parse_def_ammonia(lines) == ParseDef(lines, {N_, H_})
parse_def_hydrogen(lines) == ParseDef(lines, {H_})

VAdd(a, b) == [i \in 1..3 |-> RAdd(a[i], b[i])]
VSub(a, b) == [i \in 1..3 |-> RSub(a[i], b[i])]
VScale(a, k) == [i \in 1..3 |-> RMul(a[i], k)]
Half == Rat(1, 2)

\* x ** 0.5, for the squares the model uses
Sqrt(x) == CHOOSE r \in {Rat(n, d) : n \in 0..12, d \in 1..2} : RMul(r, r) = x

\* A variant that moves toward point2 whatever the direction asked for.
AlongSegmentPlus(m, v, norm, offset_from_midpoint, offset_direction) ==
    IF norm = Q(0) THEN Err("DegenerateSegment")
    ELSE Ok(VAdd(m, VScale(VScale(v, RDiv(Q(1), norm)), offset_from_midpoint)))
\* Lines 95-101 / 301-307: the midpoint m moved along v, of length norm
AlongSegment(m, v, norm, offset_from_midpoint, offset_direction) ==
    IF norm = Q(0) THEN Err("DegenerateSegment")
    ELSE Ok(VAdd(m, VScale(VScale(v, RDiv(Q(1), norm)),
                           RMul(IF \/ offset_direction = <<"+">>
                                   \/ Lower(offset_direction) = <<"p","l","u","s">>
                                THEN Q(1) ELSE RNeg(Q(1)),
                                offset_from_midpoint))))

\* A variant that takes the midpoint when the two points are identical.
MidpointBaseLenient(coord1_cart, coord2_cart, offset_from_midpoint, offset_direction) ==
    Ok(VScale(VAdd(coord1_cart, coord2_cart), Half))
\* Lines 85-103 / 291-309: the point on the segment before the axis offsets
MidpointBase(coord1_cart, coord2_cart, offset_from_midpoint, offset_direction) ==
    IF RLt(Q(0), RAbs(offset_from_midpoint))
    THEN AlongSegment(VScale(VAdd(coord1_cart, coord2_cart), Half),
                      VSub(coord2_cart, coord1_cart),
                      Sqrt(RAdd(RAdd(RMul(RSub(coord2_cart[1], coord1_cart[1]),
                                          RSub(coord2_cart[1], coord1_cart[1])),
                                     RMul(RSub(coord2_cart[2], coord1_cart[2]),
                                          RSub(coord2_cart[2], coord1_cart[2]))),
                                RMul(RSub(coord2_cart[3], coord1_cart[3]),
                                     RSub(coord2_cart[3], coord1_cart[3])))),
                      offset_from_midpoint, offset_direction)
    ELSE Ok(VScale(VAdd(coord1_cart, coord2_cart), Half))

\* Lines 105-107 / 311-313: cx += offset_x, ...
PlusOffset(base, offset) == IF IsErr(base) THEN base ELSE Ok(VAdd(base.v, offset))

\* A variant that takes the midpoint for a place it does not know.
AnchorLenient(coord1_cart, coord2_cart, place, offset_from_midpoint, offset_direction, offset) ==
    IF place = "first" THEN Ok(VAdd(coord1_cart, offset))
    ELSE IF place = "second" THEN Ok(VAdd(coord2_cart, offset))
    ELSE PlusOffset(MidpointBase(coord1_cart, coord2_cart,
                                 offset_from_midpoint, offset_direction), offset)

\* The placement anchor (cx, cy, cz) of lines 84-119 / 290-325, or the error.
Anchor(coord1_cart, coord2_cart, place, offset_from_midpoint, offset_direction, offset) ==
    IF place = "midpoint"
    THEN PlusOffset(MidpointBase(coord1_cart, coord2_cart,
                                 offset_from_midpoint, offset_direction), offset)
    ELSE IF place = "first" THEN Ok(VAdd(coord1_cart, offset))
    ELSE IF place = "second" THEN Ok(VAdd(coord2_cart, offset))
    ELSE Err("InvalidPlacement")

\* add_count[s] (lines 143-145)
AddCount(add_symbols, s) == Cardinality({i \in DOMAIN add_symbols : add_symbols[i] = s})

\* The loop of lines 147-156 over the keys of add_count, in insertion order.
RECURSIVE InsertCounts(_, _, _, _)
InsertCounts(keys, add_symbols, new_symbols, new_counts) ==
    IF keys = <<>> THEN [symbols |-> new_symbols, counts |-> new_counts]
    ELSE IF new_symbols # <<>> /\ Contains(new_symbols, Head(keys))
    THEN InsertCounts(Tail(keys), add_symbols, new_symbols,
             [new_counts EXCEPT ![IndexOf(new_symbols, Head(keys))] =
                                    @ + AddCount(add_symbols, Head(keys))])
    ELSE IF new_symbols # <<>>
    THEN InsertCounts(Tail(keys), add_symbols, Append(new_symbols, Head(keys)),
             Append(new_counts, AddCount(add_symbols, Head(keys))))
    ELSE InsertCounts(Tail(keys), add_symbols, new_symbols,
             Append(new_counts, AddCount(add_symbols, Head(keys))))

\* The atoms an insertion appends, in the order it appends them, each with
\* its species (lines 159-168 / 365-374).
RECURSIVE InsertGrouped(_, _, _)
InsertGrouped(over, add_symbols, add_frac) ==
    IF over = <<>> THEN <<>>
    ELSE CoordsOf(add_symbols, add_frac, Head(over))
         \o InsertGrouped(Tail(over), add_symbols, add_frac)
InsertAppended(new_symbols, add_symbols, add_frac) ==
    IF new_symbols # <<>> THEN InsertGrouped(new_symbols, add_symbols, add_frac)
    ELSE [i \in DOMAIN add_symbols |-> [sym |-> add_symbols[i], f |-> add_frac[i]]]

\* add_frac (lines 128-135 / 334-341)
AddFrac(rels, c, Linv, wrap) ==
    [i \in DOMAIN rels |->
        IF wrap THEN vec_mod1(mat_vec(Linv, VAdd(c, rels[i].d)))
        ELSE mat_vec(Linv, VAdd(c, rels[i].d))]
\* add_symbols (lines 136 / 342)
AddSymbols(rels) == [i \in DOMAIN rels |-> rels[i].sym]

\* The insertion from new_symbols / new_counts on (lines 158-202 / 364-408)
InsertCounted(p, nc, add_symbols, add_frac, flags, framework_flags) ==
    BuildOut(p, nc, InsertAppended(nc.symbols, add_symbols, add_frac),
             flags, framework_flags)

\* The insertion from the loop over rels on (lines 128-202 / 334-408)
InsertWithInverse(p, rels, c, wrap, flags, framework_flags, Linv) ==
    IF IsErr(Linv) THEN Linv
    ELSE InsertCounted(p,
             InsertCounts(SeenOrder(AddSymbols(rels), <<>>), AddSymbols(rels),
                          p.symbols, p.counts),
             AddSymbols(rels), AddFrac(rels, c, Linv.v, wrap), flags, framework_flags)

\* The insertion once the anchor is computed (lines 84-202 / 290-408)
InsertAt(p, rels, c, wrap, flags, framework_flags) ==
    IF IsErr(c) THEN c
    ELSE InsertWithInverse(p, rels, c.v, wrap, flags, framework_flags, InverseLattice(p))

\* The common part of add_ammonia_to_poscar (lines 84-202) and
\* add_hydrogen_to_poscar (lines 290-408), which repeat the same text:
\* rels are the template atoms relative to the reference point, or the
\* error raised before the anchor is computed.
InsertRigid(p, rels, coord1_cart, coord2_cart, place, wrap, flags, framework_flags, offset_from_midpoint, offset_direction, offset) ==
    IF IsErr(rels) THEN rels
    ELSE InsertAt(p, rels.v,
                  Anchor(coord1_cart, coord2_cart, place,
                         offset_from_midpoint, offset_direction, offset),
                  wrap, flags, framework_flags)

\* n_ref of lines 72-76: the position of the first N_ atom
NRef(atoms) ==
    atoms[CHOOSE i \in DOMAIN atoms :
             /\ StartsWith(atoms[i].name, N_)
             /\ \A j \in 1..(i - 1) : ~StartsWith(atoms[j].name, N_)].xyz

\* rels of add_ammonia_to_poscar (lines 72-82) for the atoms parsed, or the
\* error
AmmoniaRels(atoms) ==
    IF IsErr(atoms) THEN atoms
    ELSE IF ~\E i \in DOMAIN atoms.v : StartsWith(atoms.v[i].name, N_) THEN Err("NoNAtom")
    ELSE Ok([i \in DOMAIN atoms.v |->
                [sym |-> IF StartsWith(atoms.v[i].name, N_) THEN <<"N">> ELSE <<"H">>,
                 d |-> VSub(atoms.v[i].xyz, NRef(atoms.v))]])

add_ammonia_to_poscar(p, def, coord1_cart, coord2_cart, place, wrap, flags, framework_flags, offset_from_midpoint, offset_direction, offset) ==
    InsertRigid(p, AmmoniaRels(parse_def_ammonia(def)), coord1_cart, coord2_cart, place, wrap, flags,
                framework_flags, offset_from_midpoint, offset_direction, offset)

\* A variant that asks for two atoms at least.
HydrogenRelsAtLeast(atoms) ==
    IF IsErr(atoms) THEN atoms
    ELSE IF Len(atoms.v) < 2 THEN Err("UnexpectedAtomCount")
    ELSE Ok([i \in DOMAIN atoms.v |->
                [sym |-> <<"H">>,
                 d |-> VSub(atoms.v[i].xyz,
                            VScale(VAdd(atoms.v[1].xyz, atoms.v[2].xyz), Half))]])
\* A variant that takes the first atom as the reference point.
HydrogenRelsFirst(atoms) ==
    IF IsErr(atoms) THEN atoms
    ELSE IF Len(atoms.v) # 2 THEN Err("UnexpectedAtomCount")
    ELSE Ok([i \in DOMAIN atoms.v |->
                [sym |-> <<"H">>, d |-> VSub(atoms.v[i].xyz, atoms.v[1].xyz)]])
\* rels of add_hydrogen_to_poscar (lines 270-288) for the atoms parsed, or
\* the error
HydrogenRels(atoms) ==
    IF IsErr(atoms) THEN atoms
    ELSE IF Len(atoms.v) # 2 THEN Err("UnexpectedAtomCount")
    ELSE Ok([i \in DOMAIN atoms.v |->
                [sym |-> <<"H">>,
                 d |-> VSub(atoms.v[i].xyz,
                            VScale(VAdd(atoms.v[1].xyz, atoms.v[2].xyz), Half))]])

add_hydrogen_to_poscar(p, def, coord1_cart, coord2_cart, place, wrap, flags, framework_flags, offset_from_midpoint, offset_direction, offset) ==
    InsertRigid(p, HydrogenRels(parse_def_hydrogen(def)), coord1_cart, coord2_cart, place, wrap, flags,
                framework_flags, offset_from_midpoint, offset_direction, offset)

\* ------------------------------------------------------------------------
\* Inputs
\* ------------------------------------------------------------------------
TestCell == <<"#", " ", "t", "e", "s", "t", " ", "c", "e", "l", "l">>
Cubic(a) == << <<Q(a), Q(0), Q(0)>>, <<Q(0), Q(a), Q(0)>>, <<Q(0), Q(0), Q(a)>> >>
Skew == << <<Q(2), Q(0), Q(0)>>, <<Q(1), Q(2), Q(0)>>, <<Q(0), Q(0), Q(2)>> >>
V3(x, y, z) == <<Q(x), Q(y), Q(z)>>

NumLine(v) == [i \in DOMAIN v |-> NumTok(v[i])]
WordLine(ws) == [i \in DOMAIN ws |-> WordTok(Chars(ws[i]))]
IntLine(ns) == [i \in DOMAIN ns |-> IntTok(ns[i])]
\* A coordinate line with its three flag tokens
Flagged(v, ws) == NumLine(v) \o WordLine(ws)

\* The lines of a structure file: head is the symbols line (or none) and
\* the counts line, body the lines from `Selective dynamics` on.
PoscarText(comment, scale, lat, head, body) ==
    <<comment, <<NumTok(scale)>>>> \o [r \in 1..3 |-> NumLine(lat[r])] \o head \o body

Si2 == <<WordLine(<<"Si">>), IntLine(<<2>>)>>
TwoAtoms ==
    <<NumLine(V3(0, 0, 0)), NumLine(<<Rat(1, 4), Rat(1, 4), Rat(1, 4)>>)>>
FFF == <<FALSE, FALSE, FALSE>>
TFT == <<TRUE, FALSE, TRUE>>
FTF == <<FALSE, TRUE, FALSE>>

\* The structure files of the engine runs: the cell of the tests with one
\* symbols line each way, with and without selective dynamics.
EngineFiles ==
    { PoscarText(TestCell, Q(1), Cubic(10), Si2, <<WordLine(<<"Direct">>)>> \o TwoAtoms),
      PoscarText(TestCell, Q(1), Cubic(10), Si2,
                 <<WordLine(<<"Selective", "dynamics">>), WordLine(<<"Direct">>),
                   Flagged(V3(0, 0, 0), <<"F", "F", "F">>), Flagged(<<Rat(1, 4), Rat(1, 4), Rat(1, 4)>>, <<"T", "T", "T">>)>>),
      \* selective dynamics, the second line without flags
      PoscarText(TestCell, Q(1), Cubic(10), Si2,
                 <<WordLine(<<"Selective", "dynamics">>), WordLine(<<"Direct">>),
                   Flagged(V3(0, 0, 0), <<"F", "F", "F">>), NumLine(<<Rat(1, 4), Rat(1, 4), Rat(1, 4)>>)>>),
      PoscarText(TestCell, Q(1), Cubic(10),
                 <<WordLine(<<"Si", "O">>), IntLine(<<1, 1>>)>>,
                 <<WordLine(<<"Direct">>)>> \o TwoAtoms),
      \* one species listed twice
      PoscarText(TestCell, Q(1), Cubic(10),
                 <<WordLine(<<"Si", "O", "si">>), IntLine(<<1, 1, 1>>)>>,
                 <<WordLine(<<"Direct">>)>> \o TwoAtoms \o <<NumLine(V3(0, 0, 0))>>),
      \* no symbols line
      PoscarText(TestCell, Q(1), Cubic(10), <<IntLine(<<1>>)>>,
                 <<WordLine(<<"Cartesian">>), NumLine(V3(5, 5, 5))>>),
      PoscarText(TestCell, Q(2), Skew,
                 <<WordLine(<<"O", "H1">>), IntLine(<<1, 1>>)>>,
                 <<WordLine(<<"Selective", "dynamics">>), WordLine(<<"Cartesian">>),
                   Flagged(V3(2, 2, 0), <<"T", "F", "T">>),
                   Flagged(V3(4, 4, 4), <<"F", "F", "F">>)>>) }

\* A line of a trajectory file
PdbLine(rec, name, elem, fixed, toks) ==
    [rec |-> Chars(rec), name |-> name, elem |-> elem, fixed |-> fixed, toks |-> toks]
Marker(rec) == PdbLine(rec, <<>>, <<>>, None, <<WordTok(Chars(rec))>>)
AtomLine(rec, el, x, y, z) ==
    PdbLine(rec, Chars(el), Chars(el), Some(V3(x, y, z)), <<WordTok(Chars(rec))>>)

PdbTwoNa == <<AtomLine("ATOM", "Na", 1, 2, 3), AtomLine("ATOM", "Na", 4, 5, 6)>>
PdbThreeFrames ==
    <<Marker("REMARK"),
      Marker("MODEL"), AtomLine("ATOM", "Si", 1, 2, 3), Marker("ENDMDL"),
      Marker("MODEL"), AtomLine("ATOM", "O", 12, 0 - 2, 5), Marker("ENDMDL"),
      Marker("MODEL"), AtomLine("ATOM", "NA", 1, 2, 3), AtomLine("HETATM", "Cl", 7, 7, 7),
                       AtomLine("ATOM", "Na", 4, 5, 6), Marker("ENDMDL")>>
PdbEmpty == <<Marker("REMARK")>>
\* atoms outside the frames, and a last frame left open
PdbStray ==
    <<AtomLine("ATOM", "O", 1, 1, 1),
      Marker("MODEL"), AtomLine("ATOM", "Si", 1, 2, 3), Marker("ENDMDL"),
      AtomLine("ATOM", "Cl", 2, 2, 2),
      Marker("MODEL"), AtomLine("ATOM", "Na", 4, 5, 6)>>
\* no MODEL record: a free-format atom line, one with too few numbers, which
\* is skipped, a record of another kind, and an atom named in lower case
PdbFlat ==
    <<Marker("REMARK"),
      PdbLine("HETATM", Chars("Cl"), <<>>, None,
              <<WordTok(Chars("HETATM")), IntTok(1), WordTok(Chars("Cl"))>> \o NumLine(V3(3, 2, 1))),
      PdbLine("ATOM", Chars("Na"), <<>>, None, <<WordTok(Chars("ATOM")), IntTok(2)>>),
      AtomLine("ATOM", "O", 1, 1, 1), Marker("REMARK"), AtomLine("HETATM", "si", 4, 5, 6)>>
\* a free-format atom line, and one with too few numbers, which is skipped
PdbLoose ==
    <<Marker("MODEL"),
      PdbLine("ATOM", Chars("Cl"), <<>>, None,
              <<WordTok(Chars("ATOM")), IntTok(1), WordTok(Chars("Cl"))>> \o NumLine(V3(3, 2, 1))),
      PdbLine("ATOM", Chars("Na"), <<>>, None, <<WordTok(Chars("ATOM")), IntTok(2)>>),
      Marker("ENDMDL"),
      Marker("MODEL"), AtomLine("HETATM", "O", 1, 1, 1), Marker("ENDMDL")>>

\* Files of 1..MaxFrames frames: frame j holds j atoms, the k-th at (j, k, 0);
\* stray puts an atom before the first MODEL record, open leaves out the last
\* ENDMDL record.
MaxFrames == 3
RECURSIVE FramesText(_, _, _, _)
FramesText(j, n, open, rec) ==
    IF j > n THEN <<>>
    ELSE <<Marker("MODEL")>>
         \o [k \in 1..j |-> AtomLine(rec, IF k = 1 THEN "Na" ELSE "Cl", j, k, 0)]
         \o (IF j = n /\ open THEN <<>> ELSE <<Marker("ENDMDL")>>)
         \o FramesText(j + 1, n, open, rec)
PdbOf(n, open, stray, rec) ==
    (IF stray THEN <<AtomLine(rec, "O", 9, 9, 9)>> ELSE <<>>) \o FramesText(1, n, open, rec)

\* a frame closed by the next MODEL record, a second ENDMDL record, a frame
\* without atoms
PdbBackToBack ==
    <<Marker("MODEL"), AtomLine("ATOM", "Si", 1, 2, 3),
      Marker("MODEL"), AtomLine("ATOM", "O", 1, 1, 1), AtomLine("HETATM", "Cl", 7, 7, 7),
      Marker("ENDMDL"), Marker("ENDMDL"), Marker("REMARK"),
      Marker("MODEL"), Marker("ENDMDL")>>
PdbFiles ==
    {PdbTwoNa, PdbThreeFrames, PdbEmpty, PdbStray, PdbLoose, PdbFlat, PdbBackToBack}
    \cup { PdbOf(n, open, stray, rec) :
             n \in 1..MaxFrames, open \in BOOLEAN, stray \in BOOLEAN,
             rec \in {"ATOM", "HETATM"} }

\* The frame indices asked for: from -(MaxIndex + 1) to MaxIndex
MaxIndex == 3
FrameIndices == (0 - MaxIndex - 1)..MaxIndex

\* The atom lists merged: the frames the reader returns for the files above.
IonLists ==
    { read_pdb_last_frame(f, i).v :
        f \in {PdbTwoNa, PdbThreeFrames, PdbEmpty}, i \in {0, 1, 2} }

\* Molecule templates
DefRow(n, name, x, y, z) == <<IntTok(n), WordTok(Chars(name))>> \o NumLine(<<x, y, z>>)
NH3Def ==
    <<WordLine(<<"#", "atomic", "positions">>)>> \o
    <<DefRow(1, "N_1", Q(0), Q(0), Q(0)), DefRow(2, "H_1", Rat(9, 10), Q(0), Q(0)),
      DefRow(3, "H_2", Rat(-3, 10), Rat(9, 10), Q(0)),
      DefRow(4, "H_3", Rat(-3, 10), Rat(-9, 10), Q(0))>>
\* the nitrogen row second
NH3DefMixed ==
    <<WordLine(<<"#", "atomic", "positions">>)>> \o
    <<DefRow(1, "H_1", Rat(9, 10), Q(0), Q(0)), DefRow(2, "N_1", Q(0), Q(0), Q(0)),
      DefRow(3, "H_2", Rat(-3, 10), Rat(9, 10), Q(0)),
      DefRow(4, "H_3", Rat(-3, 10), Rat(-9, 10), Q(0)), WordLine(<<"#">>)>>
H2Def ==
    <<WordLine(<<"#", "atomic", "positions">>)>> \o
    <<DefRow(1, "H_1", Q(0), Q(0), Rat(4, 10)), DefRow(2, "M_1", Q(0), Q(0), Q(0)),
      DefRow(3, "H_2", Q(0), Q(0), Rat(-4, 10))>>

OptFlagPairs ==
    { <<None, None>>, <<Some(TFT), None>>, <<None, Some(FTF)>>, <<Some(FFF), Some(FTF)>> }

MergeCalls ==
    { [ions |-> l, wrap |-> TRUE, new_flags |-> fp[1], framework_flags |-> fp[2]] :
        l \in IonLists, fp \in OptFlagPairs }
    \cup { [ions |-> l, wrap |-> FALSE, new_flags |-> None, framework_flags |-> None] :
             l \in {read_pdb_last_frame(PdbThreeFrames, i).v : i \in {1, 2}} }

\* A placement: the midpoint of (2,0,0) and (8,0,0), moved
\* by (1, -2, 1/2), wrapped.
InsertCall(def, fp) ==
    [def |-> def, coord1_cart |-> V3(2, 0, 0), coord2_cart |-> V3(8, 0, 0),
     place |-> "midpoint", wrap |-> TRUE, new_flags |-> fp[1], framework_flags |-> fp[2],
     offset_from_midpoint |-> Q(0), offset_direction |-> <<"+">>,
     offset |-> <<Q(1), Q(-2), Half>>]
AmmoniaCalls ==
    { InsertCall(NH3Def, fp) : fp \in OptFlagPairs }
    \cup { InsertCall(NH3DefMixed, fp) : fp \in {<<None, None>>, <<Some(FFF), Some(FTF)>>} }
HydrogenCalls == { InsertCall(H2Def, fp) : fp \in OptFlagPairs }

\* The structure files of the placement runs: the cell of the insertion
\* tests (one Si atom at the origin of a 10 x 10 x 10 cell), a skew cell
\* under a scale factor, and a cell without a symbols line.
PlaceFiles ==
    { PoscarText(TestCell, Q(1), Cubic(10), <<WordLine(<<"Si">>), IntLine(<<1>>)>>,
                 <<WordLine(<<"Direct">>), NumLine(V3(0, 0, 0))>>),
      PoscarText(TestCell, Q(2), Skew,
                 <<WordLine(<<"O", "H1">>), IntLine(<<1, 1>>)>>,
                 <<WordLine(<<"Selective", "dynamics">>), WordLine(<<"Cartesian">>),
                   Flagged(V3(2, 2, 0), <<"T", "F", "T">>),
                   Flagged(V3(4, 4, 4), <<"F", "F", "F">>)>>),
      PoscarText(TestCell, Q(1), Cubic(10), <<IntLine(<<1>>)>>,
                 <<WordLine(<<"Cartesian">>), NumLine(V3(5, 5, 5))>>) }

\* Placements: point1, point2, place, offset_from_midpoint, offset_direction
\* and (offset_x, offset_y, offset_z).
Placements ==
    { <<V3(2, 0, 0), V3(8, 0, 0), "midpoint", Q(0), "+", <<Q(1), Q(-2), Half>>>>,
      <<V3(2, 3, 4), V3(8, 7, 6), "midpoint", Q(0), "-", V3(0, 0, 0)>>,
      <<V3(2, 0, 0), V3(8, 0, 0), "midpoint", Rat(3, 2), "+", V3(0, 0, 0)>>,
      <<V3(2, 0, 0), V3(8, 0, 0), "midpoint", Rat(3, 2), "-", <<Q(1), Q(-2), Half>>>>,
      <<V3(1, 2, 2), V3(3, 5, 8), "midpoint", Rat(7, 2), "PLUS", V3(0, 0, 0)>>,
      <<V3(1, 2, 2), V3(3, 5, 8), "midpoint", Q(-7), "+", V3(0, 0, 0)>>,
      <<V3(5, 5, 5), V3(5, 5, 5), "midpoint", Rat(3, 2), "+", V3(0, 0, 0)>>,
      <<V3(5, 5, 5), V3(5, 5, 5), "midpoint", Q(0), "+", <<Q(1), Q(-2), Half>>>>,
      <<V3(2, 3, 4), V3(8, 7, 6), "first", Rat(3, 2), "+", <<Q(1), Q(-2), Half>>>>,
      <<V3(5, 5, 5), V3(5, 5, 5), "second", Rat(3, 2), "-", V3(0, 0, 0)>>,
      <<V3(2, 3, 4), V3(8, 7, 6), "second", Q(0), "+", <<Q(1), Q(-2), Half>>>>,
      <<V3(2, 3, 4), V3(8, 7, 6), "center", Q(0), "+", V3(0, 0, 0)>> }
PlaceCall(def, pl, wrap) ==
    [def |-> def, coord1_cart |-> pl[1], coord2_cart |-> pl[2], place |-> pl[3],
     wrap |-> wrap, new_flags |-> None, framework_flags |-> None,
     offset_from_midpoint |-> pl[4], offset_direction |-> Chars(pl[5]),
     offset |-> pl[6]]
\* A template without the header line
NoHeaderDef == Tail(NH3Def)
PlaceAmmoniaCalls ==
    { PlaceCall(NH3Def, pl, w) : pl \in Placements, w \in BOOLEAN }
    \cup { PlaceCall(d, pl, TRUE) :
              d \in {NH3DefMixed, H2Def, NoHeaderDef},
              pl \in {x \in Placements : x[3] = "first"} }
PlaceHydrogenCalls ==
    { PlaceCall(H2Def, pl, w) : pl \in Placements, w \in BOOLEAN }
    \cup { PlaceCall(d, pl, TRUE) :
              d \in {NH3Def, NoHeaderDef}, pl \in {x \in Placements : x[3] = "first"} }
PlaceMergeCalls ==
    { [ions |-> l, wrap |-> w, new_flags |-> None, framework_flags |-> None] :
        l \in {read_pdb_last_frame(PdbThreeFrames, i).v : i \in {1, 2}} \cup {<<>>},
        w \in BOOLEAN }

\* The structure files written and read back: the files above, and the
\* same cell under a scale factor and under a target volume.
IOFiles ==
    EngineFiles
    \cup { PoscarText(TestCell, Q(2), Cubic(5), Si2, <<WordLine(<<"Direct">>)>> \o TwoAtoms),
           PoscarText(TestCell, Q(2), Cubic(5), Si2,
                      <<WordLine(<<"Cartesian">>), NumLine(V3(0, 0, 0)), NumLine(V3(5, 5, 5))>>),
           PoscarText(TestCell, Q(0 - 8), Cubic(1), Si2,
                      <<WordLine(<<"Cartesian">>), NumLine(V3(0, 0, 0)), NumLine(V3(1, 1, 1))>>) }

\* The merges made before a write: nothing, one ion with flags, two ions
IOMergeCalls ==
    { [ions |-> <<>>, wrap |-> TRUE, new_flags |-> None, framework_flags |-> None],
      [ions |-> <<PdbAtom(Chars("Na"), Q(1), Q(2), Q(3))>>, wrap |-> TRUE,
       new_flags |-> Some(TFT), framework_flags |-> None],
      [ions |-> <<PdbAtom(Chars("Na"), Q(1), Q(2), Q(3)), PdbAtom(Chars("Cl"), Q(7), Q(7), Q(7))>>,
       wrap |-> TRUE, new_flags |-> Some(FFF), framework_flags |-> Some(FTF)] }

\* The structure files of the reader runs.  A comment with blanks around it.
PaddedComment == <<" ", " ", "#", " ", "x", " ">>
\* A lattice whose rows are dependent
Flat == << <<Q(1), Q(2), Q(3)>>, <<Q(2), Q(4), Q(6)>>, <<Q(0), Q(0), Q(1)>> >>
\* The lines after the lattice up to the counts line: symbols and counts,
\* counts alone, more symbols than counts, fewer symbols than counts, words
\* or a decimal where the counts are expected, a blank line, a blank counts
\* line
ReadHeads ==
    { Si2,
      <<IntLine(<<2>>)>>,
      <<WordLine(<<"Si", "o", "H">>), IntLine(<<1, 1>>)>>,
      <<WordLine(<<"Si">>), IntLine(<<1, 1>>)>>,
      <<WordLine(<<"Si", "O">>), WordLine(<<"Direct">>)>>,
      <<WordLine(<<"Si", "O">>), <<IntTok(1), NumTok(Q(1))>>>>,
      <<<<>>, IntLine(<<2>>)>>,
      <<WordLine(<<"Si">>), <<>>>> }
Pos1 == V3(0, 0, 0)
Pos2 == <<Rat(1, 4), Rat(1, 2), Rat(5, 4)>>
\* The lines after the counts line: every mix of coordinate lines with and
\* without flags under `Selective dynamics`, and files that end early or
\* name no coordinate type
ReadBodies ==
    { <<WordLine(<<"Direct">>), NumLine(Pos1), NumLine(Pos2)>>,
      <<WordLine(<<"cartesian">>), NumLine(Pos1), NumLine(Pos2)>>,
      <<WordLine(<<"Selective", "dynamics">>), WordLine(<<"Direct">>),
        Flagged(Pos1, <<"F", "F", "F">>), Flagged(Pos2, <<"T", "F", "T">>)>>,
      <<WordLine(<<"Selective", "dynamics">>), WordLine(<<"Direct">>),
        Flagged(Pos1, <<"F", "T", "F">>), NumLine(Pos2)>>,
      <<WordLine(<<"Selective", "dynamics">>), WordLine(<<"Direct">>),
        NumLine(Pos1), Flagged(Pos2, <<"F", "T", "F">>)>>,
      <<WordLine(<<"Selective", "dynamics">>), WordLine(<<"Direct">>),
        NumLine(Pos1), NumLine(Pos2)>>,
      <<WordLine(<<"selective">>), WordLine(<<"Kartesian">>),
        Flagged(Pos1, <<"t", "f", "true">>), Flagged(Pos2, <<"F", "T">>)>>,
      <<WordLine(<<"Direct">>), NumLine(Pos1)>>,
      <<WordLine(<<"Selective", "dynamics">>)>>,
      <<>>,
      <<WordLine(<<"Direct">>)>>,
      <<WordLine(<<"Selective", "dynamics">>), WordLine(<<"Direct">>)>>,
      <<WordLine(<<"Selective", "dynamics">>), WordLine(<<"Direct">>),
        Flagged(Pos1, <<"F", "F", "F">>)>>,
      <<WordLine(<<"Fractional">>), NumLine(Pos1), NumLine(Pos2)>> }
\* The bodies read over a lattice that has no inverse
SingularBodies ==
    { <<WordLine(<<"Direct">>), NumLine(Pos1), NumLine(Pos2)>>,
      <<WordLine(<<"Cartesian">>), NumLine(Pos1), NumLine(Pos2)>>,
      <<WordLine(<<"Selective", "dynamics">>), WordLine(<<"Direct">>),
        Flagged(Pos1, <<"F", "F", "F">>), Flagged(Pos2, <<"T", "F", "T">>)>>,
      <<WordLine(<<"Direct">>), NumLine(Pos1)>> }
\* Scale and lattice: dependent rows, a zero scale, a target volume over
\* dependent rows
SingularCells == { <<Q(1), Flat>>, <<Q(2), Flat>>, <<Q(0), Cubic(10)>>, <<Q(0 - 8), Flat>> }
ReadFiles ==
    { PoscarText(TestCell, Q(1), Cubic(10), h, b) : h \in ReadHeads, b \in ReadBodies }
    \cup { PoscarText(PaddedComment, Q(1), Cubic(10), Si2, b) :
              b \in { <<WordLine(<<"Direct">>), NumLine(Pos1), NumLine(Pos2)>> } }
    \cup { PoscarText(TestCell, c[1], c[2], Si2, b) : c \in SingularCells, b \in SingularBodies }

\* Structures built without a file: Poscar() as the constructor leaves it,
\* and one atom in a cell whose lattice rows are dependent, with and without
\* selective dynamics
Poscar == NewPoscar(<<>>, Q(1), << V3(0, 0, 0), V3(0, 0, 0), V3(0, 0, 0) >>)
FlatCell(scale, sel) ==
    [NewPoscar(TestCell, scale, Flat) EXCEPT
        !.symbols = <<Chars("Si")>>, !.counts = <<1>>, !.frac_coords = <<Pos2>>,
        !.has_selective = sel, !.flags = IF sel THEN Some(<<TFT>>) ELSE None]
BuiltStructures == { Poscar, FlatCell(Q(1), FALSE), FlatCell(Q(2), TRUE) }

\* Templates the parsers reject or cut short: rows of dummy sites only, a
\* blank line after the header, a comment line after the first row, a row
\* too short and a row without numbers among the rows kept
OnlyDummyDef ==
    <<WordLine(<<"#", "Atomic", "positions">>), DefRow(1, "M_1", Q(0), Q(0), Q(0))>>
BlankFirstDef == <<WordLine(<<"#", "atomic", "positions">>), <<>>>> \o Tail(NH3Def)
CutDef ==
    <<WordLine(<<"#", "atomic", "positions">>)>> \o
    <<DefRow(1, "H_1", Q(0), Q(0), Rat(4, 10)), WordLine(<<"#", "bonds">>),
      DefRow(2, "H_2", Q(0), Q(0), Rat(-4, 10))>>
RaggedDef ==
    <<WordLine(<<"title">>), WordLine(<<"#", "atomic", "positions">>)>> \o
    <<DefRow(1, "H_1", Q(0), Q(0), Rat(4, 10)),
      <<IntTok(2), WordTok(Chars("H_9")), NumTok(Q(0)), NumTok(Q(0))>>,
      <<IntTok(3), WordTok(Chars("H_8")), NumTok(Q(0)), WordTok(Chars("x")), NumTok(Q(0))>>,
      DefRow(4, "N_1", Q(0), Q(0), Q(0)),
      DefRow(5, "M_1", Q(0), Q(0), Q(0)),
      DefRow(6, "H_2", Q(0), Q(0), Rat(-4, 10))>>
Templates == { NH3Def, H2Def, NoHeaderDef, OnlyDummyDef, BlankFirstDef, CutDef, RaggedDef }
\* The calls of the reader runs: every template at point1, one template at a
\* place that does not exist, a merge of one atom and a merge of none
FirstPlace == <<V3(2, 3, 4), V3(8, 7, 6), "first", Q(0), "+", V3(0, 0, 0)>>
NoPlace == <<V3(2, 3, 4), V3(8, 7, 6), "Midpoint", Q(0), "+", V3(0, 0, 0)>>
ReadInsertCalls ==
    { PlaceCall(d, FirstPlace, TRUE) : d \in Templates }
    \cup { PlaceCall(d, NoPlace, FALSE) : d \in {NH3Def, H2Def, NoHeaderDef} }
ReadMergeCalls ==
    { [ions |-> l, wrap |-> FALSE, new_flags |-> None, framework_flags |-> None] :
        l \in { <<>>, <<PdbAtom(Chars("Na"), Q(1), Q(2), Q(3))>> } }

\* ------------------------------------------------------------------------
\* Objects.  The containers of a structure are Python objects: the instance,
\* the lattice list and its three rows, the symbols, counts and frac_coords
\* lists, each coordinate triple, and the flags list (0 when flags is None).
\* An object is named by a number; the objects of the structure passed to
\* a call are numbered from 1, those the call makes from Len + 10 on.
\* ------------------------------------------------------------------------
\* The objects of a structure q as read_poscar or an engine call built it
InputRefs(q) ==
    [obj |-> 1, lattice |-> 2, rows |-> <<3, 4, 5>>, symbols |-> 6, counts |-> 7,
     frac_coords |-> 8, flags |-> IF q.flags.some THEN 9 ELSE 0,
     coords |-> [i \in DOMAIN q.frac_coords |-> 9 + i]]

\* A variant in which base_counts is p.counts itself, not a copy of it.
LocalsShared(q, refs) ==
    [L |-> Len(q.frac_coords) + 10,
     L_rows |-> [r \in 1..3 |-> Len(q.frac_coords) + 10 + r],
     new_symbols |-> Len(q.frac_coords) + 14,
     new_counts |-> refs.counts,
     new_frac |-> Len(q.frac_coords) + 16,
     new_flags |-> Len(q.frac_coords) + 17,
     out |-> Len(q.frac_coords) + 18,
     out_lattice |-> Len(q.frac_coords) + 19,
     out_rows |-> [r \in 1..3 |-> Len(q.frac_coords) + 19 + r],
     added |-> Len(q.frac_coords) + 22]
\* The objects a call binds its local names to: L and its rows are made by
\* lattice_cart (line 23); new_symbols, new_counts, new_frac and new_flags
\* are copies (lines 293-297, 316, 336-340; molecules.py lines 139-140, 159,
\* 177-182); out is a new instance, its lattice and rows are copies (lines
\* 349-352); ion_frac / add_frac hold new triples (lines 283-286), numbered
\* from `added` on.
Locals(q, refs) ==
    [L |-> Len(q.frac_coords) + 10,
     L_rows |-> [r \in 1..3 |-> Len(q.frac_coords) + 10 + r],
     new_symbols |-> Len(q.frac_coords) + 14,
     new_counts |-> Len(q.frac_coords) + 15,
     new_frac |-> Len(q.frac_coords) + 16,
     new_flags |-> Len(q.frac_coords) + 17,
     out |-> Len(q.frac_coords) + 18,
     out_lattice |-> Len(q.frac_coords) + 19,
     out_rows |-> [r \in 1..3 |-> Len(q.frac_coords) + 19 + r],
     added |-> Len(q.frac_coords) + 22]

\* The objects of the structure built at lines 349-358 (molecules.py lines
\* 192-201): new_frac is list(p.frac_coords) extended, so its first entries
\* are the triples of the input.
OutRefs(refs, loc, r) ==
    [obj |-> loc.out, lattice |-> loc.out_lattice, rows |-> loc.out_rows,
     symbols |-> loc.new_symbols, counts |-> loc.new_counts,
     frac_coords |-> loc.new_frac,
     flags |-> IF r.v.flags.some THEN loc.new_flags ELSE 0,
     coords |-> refs.coords \o [i \in DOMAIN r.appended |-> loc.added + i]]

\* The objects a call that got as far as lattice_cart has written to: the
\* rows of L (lines 26-28, 36-38) and, when it went on, the lists it
\* appends to or increments (lines 308-314, 327, 345) and out (350-358).
WrittenTo(loc, r) ==
    {loc.L_rows[k] : k \in 1..3}
    \cup (IF IsErr(r) THEN {}
          ELSE {loc.new_symbols, loc.new_counts, loc.new_frac, loc.out}
               \cup (IF r.v.flags.some THEN {loc.new_flags} ELSE {}))

\* What an engine call on q did with objects: the objects of its input,
\* those of the structure it returned and those it wrote to.  A merge of
\* an empty list returns p itself (lines 274-275); a call that raised
\* before lattice_cart wrote to nothing.
EngineRefs(op, q, c, r) ==
    IF op = "merge" /\ c.ions = <<>>
    THEN [inp |-> InputRefs(q), out |-> Some(InputRefs(q)), writes |-> {}]
    ELSE [inp |-> InputRefs(q),
          out |-> IF IsErr(r) THEN None
                  ELSE Some(OutRefs(InputRefs(q), Locals(q, InputRefs(q)), r)),
          writes |-> IF r.err \in {"", "SingularMatrix"}
                     THEN WrittenTo(Locals(q, InputRefs(q)), r) ELSE {}]

\* ------------------------------------------------------------------------
\* The state machine: a caller that reads a structure file, applies engine
\* calls to the structure it holds, writes it and reads it back; and a
\* caller that reads a frame of a trajectory file.
\* ------------------------------------------------------------------------
VARIABLES
    file,     \* the lines of the structure file on disk
    p,        \* the structure the caller holds (None before the first read)
    elems,    \* for each entry of p.frac_coords, the species of that atom
    call,     \* the last call made: its name, arguments, input and outcome
    nops,     \* engine calls made so far
    written   \* the write_poscar calls made so far: structure and out_coord_type

vars == <<file, p, elems, call, nops, written>>

\* Chains of at most MaxOps engine calls and MaxWrites writes are explored.
MaxOps == 2
MaxWrites == 2

NoCall ==
    [op |-> "none", inp |-> None, err |-> "", given |-> 0, wrap |-> FALSE,
     new_flags |-> None, framework_flags |-> None, added |-> <<>>,
     lines |-> <<>>, index |-> 0, out |-> <<>>, args |-> None, refs |-> None]

\* The species of the atoms of a structure as read: symbols x counts.
RECURSIVE Expand(_, _)
Expand(symbols, counts) ==
    IF symbols = <<>> \/ counts = <<>> THEN <<>>
    ELSE [i \in 1..Head(counts) |-> Head(symbols)] \o Expand(Tail(symbols), Tail(counts))
SpeciesAsRead(q) ==
    IF q.symbols # <<>> THEN Expand(q.symbols, q.counts)
    ELSE [i \in DOMAIN q.frac_coords |-> <<"?">>]

Init ==
    /\ file = <<>>
    /\ p = None
    /\ elems = <<>>
    /\ call = NoCall
    /\ nops = 0
    /\ written = <<>>

\* What a caller holds after read_poscar returned or raised
Loaded(op, r, inp) ==
    /\ p' = IF IsErr(r) THEN None ELSE Some(r.v)
    /\ elems' = IF IsErr(r) THEN <<>> ELSE SpeciesAsRead(r.v)
    /\ call' = [NoCall EXCEPT !.op = op, !.err = r.err, !.inp = inp]

\* p = read_poscar(path) on one of the input files
ReadInput(files) ==
    /\ call.op = "none"
    /\ \E f \in files : \E r \in {read_poscar(f)} :
         /\ file' = f
         /\ Loaded("read_poscar", r, None)
    /\ UNCHANGED <<nops, written>>

\* The outcome of an engine call on the structure held: the caller keeps
\* the structure returned, or the one it had when the call raised.
Engine(op, r, c, given) ==
    /\ p' = IF IsErr(r) THEN p ELSE Some(r.v)
    /\ elems' = IF IsErr(r) THEN elems
                ELSE elems \o [i \in DOMAIN r.appended |-> r.appended[i].sym]
    /\ call' = [NoCall EXCEPT !.op = op, !.inp = p, !.err = r.err, !.given = given,
                              !.wrap = c.wrap, !.new_flags = c.new_flags,
                              !.framework_flags = c.framework_flags,
                              !.added = IF IsErr(r) THEN <<>> ELSE r.appended,
                              !.args = Some(c),
                              !.refs = Some(EngineRefs(op, p.v, c, r))]
    /\ nops' = nops + 1
    /\ UNCHANGED <<file, written>>

\* p = merge_ions_into_poscar(p, ions, wrap, ion_flags, framework_flags)
Merge(calls) ==
    /\ p.some /\ nops < MaxOps /\ written = <<>>
    /\ \E c \in calls :
       \E r \in {merge_ions_into_poscar(p.v, c.ions, c.wrap, c.new_flags,
                                        c.framework_flags)} :
         Engine("merge", r, c, Len(c.ions))

\* The number of atoms of a template, 0 when it is rejected
GivenAtoms(rels) == IF IsErr(rels) THEN 0 ELSE Len(rels.v)

\* p = add_ammonia_to_poscar(p, def_path, ...)
AddAmmonia(calls) ==
    /\ p.some /\ nops < MaxOps /\ written = <<>>
    /\ \E c \in calls :
       \E r \in {add_ammonia_to_poscar(p.v, c.def, c.coord1_cart, c.coord2_cart,
                      c.place, c.wrap, c.new_flags, c.framework_flags,
                      c.offset_from_midpoint, c.offset_direction, c.offset)} :
         Engine("add_ammonia", r, c, GivenAtoms(AmmoniaRels(parse_def_ammonia(c.def))))

\* p = add_hydrogen_to_poscar(p, def_path, ...)
AddHydrogen(calls) ==
    /\ p.some /\ nops < MaxOps /\ written = <<>>
    /\ \E c \in calls :
       \E r \in {add_hydrogen_to_poscar(p.v, c.def, c.coord1_cart, c.coord2_cart,
                      c.place, c.wrap, c.new_flags, c.framework_flags,
                      c.offset_from_midpoint, c.offset_direction, c.offset)} :
         Engine("add_hydrogen", r, c, GivenAtoms(HydrogenRels(parse_def_hydrogen(c.def))))

\* write_poscar(p, path, out_coord_type): the file is replaced unless the
\* call raises before it opens the file.
WritePoscar(octs) ==
    /\ p.some /\ Len(written) < MaxWrites
    /\ call.op # "write_poscar"
    /\ \E oct \in octs : \E r \in {write_poscar(p.v, oct)} :
         /\ file' = IF IsErr(r) THEN file ELSE r.v
         /\ call' = [NoCall EXCEPT !.op = "write_poscar", !.inp = p, !.err = r.err]
         /\ written' = Append(written, [p |-> p.v, oct |-> oct])
    /\ UNCHANGED <<p, elems, nops>>

\* p = read_poscar(path) on the file just written
ReadBack ==
    /\ call.op = "write_poscar" /\ call.err = ""
    /\ \E r \in {read_poscar(file)} : Loaded("read_back", r, call.inp)
    /\ UNCHANGED <<file, nops, written>>

\* ions = read_pdb_last_frame(path, model_index)
ReadPdb(files, indices) ==
    /\ call.op = "none"
    /\ \E f \in files, i \in indices : \E r \in {read_pdb_last_frame(f, i)} :
         call' = [NoCall EXCEPT !.op = "read_pdb_last_frame", !.lines = f, !.index = i,
                                !.err = r.err, !.out = r.v]
    /\ UNCHANGED <<file, p, elems, nops, written>>

\* The engine: chains of merges and insertions on a structure read
Next ==
    \/ ReadInput(EngineFiles)
    \/ Merge(MergeCalls)
    \/ AddAmmonia(AmmoniaCalls)
    \/ AddHydrogen(HydrogenCalls)

Spec == Init /\ [][Next]_vars

\* The codec: read, merge, write, read back, write, read back
NextIO ==
    \/ ReadInput(IOFiles)
    \/ Merge(IOMergeCalls)
    \/ WritePoscar({<<>>, Chars("Direct"), Chars("Cartesian")})
    \/ ReadBack

SpecIO == Init /\ [][NextIO]_vars

\* Placements: one call on a structure read (MaxPlaced calls in a row)
MaxPlaced == 1
Place ==
    /\ nops < MaxPlaced
    /\ \/ Merge(PlaceMergeCalls)
       \/ AddAmmonia(PlaceAmmoniaCalls)
       \/ AddHydrogen(PlaceHydrogenCalls)
NextPlace == ReadInput(PlaceFiles) \/ Place

SpecPlace == Init /\ [][NextPlace]_vars

\* p = Poscar() and the fields set by the caller
Construct(structures) ==
    /\ call.op = "none"
    /\ \E q \in structures :
         /\ p' = Some(q)
         /\ elems' = SpeciesAsRead(q)
         /\ call' = [NoCall EXCEPT !.op = "Poscar"]
    /\ UNCHANGED <<file, nops, written>>

\* The reader: a file read or a structure built, MaxPlaced calls on it, then
\* written and read back
Edit ==
    /\ nops < MaxPlaced
    /\ \/ Merge(ReadMergeCalls)
       \/ AddAmmonia(ReadInsertCalls)
       \/ AddHydrogen(ReadInsertCalls)
NextRead ==
    \/ ReadInput(ReadFiles)
    \/ Construct(BuiltStructures)
    \/ Edit
    \/ WritePoscar({<<>>})
    \/ ReadBack

SpecRead == Init /\ [][NextRead]_vars

\* The trajectory reader
NextPdb == ReadPdb(PdbFiles, FrameIndices)

SpecPdb == Init /\ [][NextPdb]_vars

\* ------------------------------------------------------------------------
\* Properties
\* ------------------------------------------------------------------------
EngineOps == {"merge", "add_ammonia", "add_hydrogen"}
\* The last call was an engine call and it returned a structure.
Returned == call.op \in EngineOps /\ call.err = ""
\* The structure the last call was given; the structure the caller holds.
In == call.inp.v
Out == p.v
\* The flags a call gives an added atom: the new-atom flags, else the default
FlagsForAdded == IF call.new_flags.some THEN call.new_flags.v ELSE TTT

\* C1: after every chain of merges and insertions on a structure read from a
\* file, the counts sum to the number of coordinate rows, and the flags,
\* when present, have one entry per coordinate row.
C1_CountsMatchAtoms ==
    (p.some /\ nops > 0) =>
        /\ SumSeq(Out.counts) = Len(Out.frac_coords)
        /\ Out.flags.some => Len(Out.flags.v) = Len(Out.frac_coords)

\* C2: after every chain of merges and insertions on a structure with a
\* symbols list, the k-th coordinate row is an atom of the k-th species of
\* the expansion symbols x counts.
C2_SpeciesMajor ==
    (p.some /\ nops > 0 /\ Out.symbols # <<>>) =>
        elems = Expand(Out.symbols, Out.counts)

\* C3: a merge of a non-empty atom list returns as many coordinate rows as
\* the input has, plus one per atom of the list.
C3_MergeLength ==
    (Returned /\ call.op = "merge" /\ call.given > 0) =>
        Len(Out.frac_coords) = Len(In.frac_coords) + call.given

\* C4: on an input without selective dynamics, a merge or insertion returns
\* a structure without selective dynamics and without flags when neither
\* flags argument is given, and one with selective dynamics when either is.
C4_FlagEnable ==
    (Returned /\ ~In.has_selective) =>
        IF ~call.new_flags.some /\ ~call.framework_flags.some
        THEN ~Out.has_selective /\ ~Out.flags.some
        ELSE Out.has_selective

\* C5: when framework_flags is given, every atom of the input carries
\* framework_flags in the result.
C5_FrameworkOverride ==
    (Returned /\ call.framework_flags.some) =>
        /\ Out.flags.some
        /\ \A i \in 1..Len(In.frac_coords) :
              i \in DOMAIN Out.flags.v /\ Out.flags.v[i] = call.framework_flags.v

\* C6: when framework_flags is omitted and the input has flags, every atom
\* of the input keeps in the result the flags it has in the input.
C6_FlagsPreserved ==
    (Returned /\ ~call.framework_flags.some /\ In.has_selective /\ In.flags.some) =>
        /\ Out.flags.some
        /\ \A i \in 1..Len(In.frac_coords) :
              /\ i \in DOMAIN In.flags.v
              /\ i \in DOMAIN Out.flags.v
              /\ Out.flags.v[i] = In.flags.v[i]

\* C7: when a merge or insertion without framework_flags turns selective
\* dynamics on, the result has one flags entry per coordinate row: (True,
\* True, True) for every atom of the input, and for every row after them
\* the new-atom flags when given, else (True, True, True).
C7_SynthesizedFlags ==
    (Returned /\ ~In.has_selective /\ ~call.framework_flags.some /\ Out.has_selective) =>
        /\ Out.flags.some
        /\ Len(Out.frac_coords) = Len(In.frac_coords) + Len(call.added)
        /\ DOMAIN Out.flags.v = DOMAIN Out.frac_coords
        /\ \A i \in DOMAIN Out.flags.v :
              Out.flags.v[i] = IF i <= Len(In.frac_coords) THEN TTT ELSE FlagsForAdded

\* A merge of three atoms with flags (True, False, True) has turned selective
\* dynamics on.
C7_Witness ==
    /\ Returned /\ call.op = "merge" /\ Len(call.added) = 3
    /\ ~In.has_selective /\ ~call.framework_flags.some /\ Out.has_selective
    /\ call.new_flags = Some(TFT)
    /\ In.frac_coords # <<>>

\* The last call read back a file written with the default out_coord_type.
ReadBackDefault ==
    /\ call.op = "read_back"
    /\ written[Len(written)].oct = <<>>
\* The structure given to the last write_poscar
Written == written[Len(written)].p

\* C8: a structure that read_poscar returned, written by write_poscar and
\* read again, is returned equal in every field.
C8_RoundTripFields ==
    (ReadBackDefault /\ nops = 0) =>
        /\ call.err = ""
        /\ Out = Written

\* C9: a file read, written and read back, once or twice, gives the atom
\* count, the fractional coordinates, has_selective and the flags of the
\* structure first written (that of the first read, or the one a merge
\* made of it).
C9_RoundTripData ==
    (call.op = "read_back" /\ \A k \in DOMAIN written : written[k].oct = <<>>) =>
        /\ call.err = ""
        /\ Len(Out.frac_coords) = Len(written[1].p.frac_coords)
        /\ Out.frac_coords = written[1].p.frac_coords
        /\ Out.has_selective = written[1].p.has_selective
        /\ Out.flags = written[1].p.flags

\* The frames of the file the last call read
FramesRead == PdbFrames(call.lines).atoms_frames
\* The index the call's model_index stands for: negative counts from the end
Resolved == IF call.index >= 0 THEN call.index ELSE Len(FramesRead) + call.index

\* C10: on a file with n frames, read_pdb_last_frame returns frame i for
\* i >= 0 and frame n + i for i < 0, and raises the frame-index error when
\* that index is outside [0, n).
C10_FrameIndex ==
    (call.op = "read_pdb_last_frame" /\ FramesRead # <<>>) =>
        IF Resolved >= 0 /\ Resolved < Len(FramesRead)
        THEN call.err = "" /\ call.out = FramesRead[Resolved + 1]
        ELSE call.err = "FrameIndexOutOfRange"

\* The species of the atoms given to the last merge, in list order
Given ==
    [i \in DOMAIN call.args.v.ions |-> _normalize_element(call.args.v.ions[i].element)]
\* The distinct entries of a list, first seen first
RECURSIVE Distinct(_)
Distinct(s) ==
    IF s = <<>> THEN <<>>
    ELSE IF \E j \in 1..(Len(s) - 1) : s[j] = s[Len(s)]
    THEN Distinct(SubSeq(s, 1, Len(s) - 1))
    ELSE Append(Distinct(SubSeq(s, 1, Len(s) - 1)), s[Len(s)])
HowMany(s, x) == Cardinality({i \in DOMAIN s : s[i] = x})
Merged == Returned /\ call.op = "merge"

\* C13: a merge into a structure without a symbols line leaves symbols
\* empty, keeps the counts entries it finds and appends one entry per
\* distinct species given, first seen first, equal to the number of atoms
\* given of that species.
C13_AnonymousCounts ==
    (Merged /\ In.symbols = <<>>) =>
        /\ Out.symbols = <<>>
        /\ Out.counts = In.counts \o [k \in DOMAIN Distinct(Given) |->
                                        HowMany(Given, Distinct(Given)[k])]

\* Three atoms of two species, the first species given twice, have been
\* merged into a structure without a symbols line.
C13_Witness ==
    /\ Merged /\ In.symbols = <<>>
    /\ Len(Given) = 3 /\ Len(Distinct(Given)) = 2 /\ Given[1] = Given[3]
    /\ Len(Out.counts) = Len(In.counts) + 2

\* The species given that the input does not list, first seen first
NewSpecies == SelectSeq(Distinct(Given), LAMBDA x : \A k \in DOMAIN In.symbols : In.symbols[k] # x)

\* C17: a merge into a structure with a symbols line adds to the count of
\* a species it lists (at the first entry of that label) the number of atoms
\* given of that species and leaves symbols as they are, and appends each
\* species it does not list, first seen first, with the number of atoms
\* given of it.
C17_GroupedCounts ==
    (Merged /\ In.symbols # <<>>) =>
        /\ Out.symbols = In.symbols \o NewSpecies
        /\ Out.counts =
              [k \in DOMAIN In.counts |->
                  In.counts[k] + IF /\ k \in DOMAIN In.symbols
                                    /\ \A j \in 1..(k - 1) : In.symbols[j] # In.symbols[k]
                                 THEN HowMany(Given, In.symbols[k]) ELSE 0]
              \o [k \in DOMAIN NewSpecies |-> HowMany(Given, NewSpecies[k])]

\* The second merge of a chain was given three atoms of two species that the
\* first merge had added to the symbols.
C17_Witness ==
    /\ Merged /\ nops = 2 /\ In.symbols # <<>>
    /\ Len(Given) = 3 /\ Len(Distinct(Given)) = 2
    /\ NewSpecies = <<>>
    /\ Len(Out.symbols) = 3

\* The file read has no MODEL and no ENDMDL record.
NoMarkers ==
    \A i \in DOMAIN call.lines :
        [k \in DOMAIN call.lines[i].rec |-> ToUpper(call.lines[i].rec[k])]
            \notin {Chars("MODEL"), Chars("ENDMDL")}
\* The atoms of the ATOM and HETATM records of lines that carry a position,
\* in file order
RECURSIVE AtomRecords(_)
AtomRecords(lines) ==
    IF lines = <<>> THEN <<>>
    ELSE (IF [k \in DOMAIN Head(lines).rec |-> ToUpper(Head(lines).rec[k])]
                \in {Chars("ATOM"), Chars("HETATM")}
          THEN AtomOfLine(Head(lines)) ELSE <<>>)
         \o AtomRecords(Tail(lines))

\* C16: from a file without MODEL and ENDMDL records read_pdb_last_frame
\* returns, whatever the index asked for, the atoms of all its ATOM and
\* HETATM records that carry a position, in file order; the empty list when
\* there are none.
C16_ImplicitFrame ==
    (call.op = "read_pdb_last_frame" /\ NoMarkers) =>
        /\ call.err = ""
        /\ call.out = AtomRecords(call.lines)

\* A file of three atom records and no MODEL record was read with index 2.
C16_Witness ==
    /\ call.op = "read_pdb_last_frame" /\ NoMarkers
    /\ call.index = 2 /\ call.err = ""
    /\ Len(call.out) = 3

\* The objects of a structure: the instance and its mutable containers
RefsOf(x) ==
    {x.obj, x.lattice, x.symbols, x.counts, x.frac_coords}
    \cup {x.rows[k] : k \in DOMAIN x.rows}
    \cup {x.coords[k] : k \in DOMAIN x.coords}
    \cup (IF x.flags # 0 THEN {x.flags} ELSE {})

\* C11: the structure a merge or insertion returns is a new instance and
\* shares with its input no lattice row, no symbols, counts, frac_coords or
\* flags list and no coordinate triple.
C11_NoAliasing ==
    Returned => RefsOf(call.refs.v.out.v) \cap RefsOf(call.refs.v.inp) = {}

Args == call.args.v
Inserted == Returned /\ call.op \in {"add_ammonia", "add_hydrogen"}
\* The atoms of the template of the last insertion, and its reference point:
\* the first N_ atom of an ammonia template, the midpoint of the two atoms
\* of a hydrogen template
TemplateAtoms ==
    IF call.op = "add_ammonia" THEN parse_def_ammonia(Args.def).v
    ELSE parse_def_hydrogen(Args.def).v
Reference ==
    IF call.op = "add_ammonia"
    THEN TemplateAtoms[CHOOSE k \in DOMAIN TemplateAtoms :
                          /\ SubSeq(TemplateAtoms[k].name, 1, 2) = <<"N", "_">>
                          /\ \A j \in 1..(k - 1) :
                                SubSeq(TemplateAtoms[j].name, 1, 2) # <<"N", "_">>].xyz
    ELSE [c \in 1..3 |-> RDiv(RAdd(TemplateAtoms[1].xyz[c], TemplateAtoms[2].xyz[c]), Q(2))]
\* The species a template atom is inserted as
SpeciesOf(k) ==
    IF call.op = "add_ammonia" /\ SubSeq(TemplateAtoms[k].name, 1, 2) = <<"N", "_">>
    THEN <<"N">> ELSE <<"H">>
\* The Cartesian position of fractional coordinates in the cell of the input
CartOf(f) == mat_vec(lattice_cart(In).v, f)
\* The Cartesian positions of the added atoms, in the order of call.added
AddedCart == [i \in DOMAIN call.added |-> CartOf(call.added[i].f)]
\* Where the molecule was put: the position of the N atom of an ammonia, the
\* midpoint of the two atoms of a hydrogen (for insertions without wrap)
PlacedAt ==
    IF call.op = "add_ammonia"
    THEN AddedCart[CHOOSE i \in DOMAIN call.added : call.added[i].sym = <<"N">>]
    ELSE [c \in 1..3 |-> RDiv(RAdd(AddedCart[1][c], AddedCart[2][c]), Q(2))]

\* The placement anchor of the last insertion
TheAnchor ==
    Anchor(Args.coord1_cart, Args.coord2_cart, Args.place, Args.offset_from_midpoint,
           Args.offset_direction, Args.offset).v

\* C15: an insertion without wrap adds one atom per template atom, of its
\* species, at the anchor plus the template position of the atom minus the
\* reference point of the template; the N atom of an ammonia is on the
\* anchor; the two atoms of a hydrogen have the anchor as their midpoint and
\* are separated by the bond vector of the template.
C15_Rigid ==
    (Inserted /\ ~Args.wrap) =>
        /\ Len(call.added) = Len(TemplateAtoms)
        /\ \A k \in DOMAIN TemplateAtoms : \E i \in DOMAIN call.added :
              /\ call.added[i].sym = SpeciesOf(k)
              /\ AddedCart[i] = VAdd(TheAnchor, VSub(TemplateAtoms[k].xyz, Reference))
        /\ PlacedAt = TheAnchor
        /\ call.op = "add_hydrogen" =>
              VSub(AddedCart[1], AddedCart[2])
                  = VSub(TemplateAtoms[1].xyz, TemplateAtoms[2].xyz)

\* A hydrogen was inserted without wrap at the midpoint of (2,3,4) and
\* (8,7,6): its atoms are at (5, 5, 5.4) and (5, 5, 4.6).
C15_Witness ==
    /\ Inserted /\ call.op = "add_hydrogen" /\ ~Args.wrap
    /\ Args.place = "midpoint" /\ Args.coord1_cart = V3(2, 3, 4)
    /\ PlacedAt = V3(5, 5, 5)
    /\ AddedCart = <<<<Q(5), Q(5), Rat(54, 10)>>, <<Q(5), Q(5), Rat(46, 10)>>>>

\* The two points of the last insertion, their midpoint, and the place of
\* the molecule before the per-axis offset
Mid == [c \in 1..3 |-> RDiv(RAdd(Args.coord1_cart[c], Args.coord2_cart[c]), Q(2))]
Segment == VSub(Args.coord2_cart, Args.coord1_cart)
BeforeOffset == VSub(PlacedAt, Args.offset)
Dot(a, b) == RAdd(RAdd(RMul(a[1], b[1]), RMul(a[2], b[2])), RMul(a[3], b[3]))
Cross(a, b) ==
    <<RSub(RMul(a[2], b[3]), RMul(a[3], b[2])), RSub(RMul(a[3], b[1]), RMul(a[1], b[3])),
      RSub(RMul(a[1], b[2]), RMul(a[2], b[1]))>>
\* v is offset_from_midpoint times the unit vector of the segment, taken
\* toward point2 for '+' and toward point1 for '-'
AlongBy(v) ==
    /\ Cross(v, Segment) = V3(0, 0, 0)
    /\ Dot(v, v) = RMul(Args.offset_from_midpoint, Args.offset_from_midpoint)
    /\ Args.offset_direction = <<"+">> =>
          RLt(Q(0), RMul(Dot(v, Segment), Args.offset_from_midpoint))
    /\ Args.offset_direction = <<"-">> =>
          RLt(RMul(Dot(v, Segment), Args.offset_from_midpoint), Q(0))

\* C19: an insertion (without wrap, so that the place shows) puts the
\* molecule at the per-axis offset added to: for midpoint, the midpoint of
\* the two points, moved when the axis offset is not zero by the axis offset
\* along the unit vector from point1 to point2, toward point2 for '+' and
\* back for '-'; for first, point1; for second, point2.
C19_Anchor ==
    (Inserted /\ ~Args.wrap) =>
        /\ Args.place \in {"midpoint", "first", "second"}
        /\ Args.place = "first" => BeforeOffset = Args.coord1_cart
        /\ Args.place = "second" => BeforeOffset = Args.coord2_cart
        /\ Args.place = "midpoint" =>
              IF Args.offset_from_midpoint = Q(0) THEN BeforeOffset = Mid
              ELSE AlongBy(VSub(BeforeOffset, Mid))

\* An ammonia was inserted without wrap at the midpoint of (2,0,0) and
\* (8,0,0), 1.5 back toward point1, plus (1, -2, 0.5): the N atom is at
\* (4.5, -2, 0.5).
C19_Witness ==
    /\ Inserted /\ call.op = "add_ammonia" /\ ~Args.wrap
    /\ Args.place = "midpoint" /\ Args.offset_direction = <<"-">>
    /\ Args.offset_from_midpoint = Rat(3, 2)
    /\ PlacedAt = <<Rat(9, 2), Q(-2), Half>>

\* The template of the last insertion was accepted.
TemplateAccepted ==
    call.err \notin {"NoHeader", "NoMatchingAtoms", "NoNAtom", "UnexpectedAtomCount"}

\* C20: an insertion at the midpoint whose template is accepted raises the
\* degenerate-segment error, and returns no structure, exactly when the two
\* points are equal and the axis offset is not zero; with equal points and
\* a zero axis offset the molecule is put at the point plus the per-axis
\* offset.
C20_Degenerate ==
    (call.op \in {"add_ammonia", "add_hydrogen"} /\ TemplateAccepted
        /\ Args.place = "midpoint") =>
        /\ call.err = "DegenerateSegment" <=>
              (Args.coord1_cart = Args.coord2_cart /\ Args.offset_from_midpoint # Q(0))
        /\ call.err = "DegenerateSegment" => (p = call.inp /\ call.added = <<>>)
        /\ (Args.coord1_cart = Args.coord2_cart /\ Args.offset_from_midpoint = Q(0)
              /\ ~Args.wrap) =>
              (call.err = "" /\ PlacedAt = VAdd(Args.coord1_cart, Args.offset))

\* A hydrogen insertion at the midpoint of (5,5,5) and (5,5,5) with axis
\* offset 1.5 has raised the degenerate-segment error.
C20_Witness ==
    /\ call.op = "add_hydrogen" /\ call.err = "DegenerateSegment"
    /\ Args.place = "midpoint" /\ Args.coord1_cart = Args.coord2_cart
    /\ Args.offset_from_midpoint = Rat(3, 2)
    /\ p = call.inp

\* The atoms given to the last engine call as (species, Cartesian position):
\* the atoms of a merge, the template atoms of an insertion moved onto the
\* anchor
AtomsGiven ==
    IF call.op = "merge"
    THEN [k \in DOMAIN Args.ions |->
            [sym |-> _normalize_element(Args.ions[k].element), xyz |-> Args.ions[k].xyz]]
    ELSE [k \in DOMAIN TemplateAtoms |->
            [sym |-> SpeciesOf(k),
             xyz |-> VAdd(TheAnchor, VSub(TemplateAtoms[k].xyz, Reference))]]
\* The fractional position of a given atom before any wrap
Unwrapped(k) == mat_vec(InverseLattice(In).v, AtomsGiven[k].xyz)
IsInt(q) == q[2] = 1
InUnit(q) == ~RLt(q, Q(0)) /\ RLt(q, Q(1))
\* The added row i is the given atom k: wrapped into the cell, or as it is
IsWrapOf(i, k) ==
    /\ call.added[i].sym = AtomsGiven[k].sym
    /\ \A c \in 1..3 :
          /\ InUnit(call.added[i].f[c])
          /\ IsInt(RSub(call.added[i].f[c], Unwrapped(k)[c]))
IsCopyOf(i, k) ==
    call.added[i].sym = AtomsGiven[k].sym /\ call.added[i].f = Unwrapped(k)

\* C14: a merge or an insertion adds one row per atom given; with wrap every
\* added row has its three coordinates in [0,1) and differs from the
\* unwrapped fractional position of its atom by integers; without wrap the
\* added rows are the unwrapped fractional positions.
C14_Wrap ==
    Returned =>
        /\ Len(call.added) = Len(AtomsGiven)
        /\ \A k \in DOMAIN AtomsGiven : \E i \in DOMAIN call.added :
              IF Args.wrap THEN IsWrapOf(i, k) ELSE IsCopyOf(i, k)
        /\ \A i \in DOMAIN call.added : \E k \in DOMAIN AtomsGiven :
              IF Args.wrap THEN IsWrapOf(i, k) ELSE IsCopyOf(i, k)

\* An ammonia was inserted with wrap in the cubic cell of edge 10 at the
\* midpoint of (2,0,0) and (8,0,0) plus (1, -2, 0.5): the anchor has y = -2
\* and the N atom is at fractional (0.6, 0.8, 0.05).
C14_Witness ==
    /\ Inserted /\ call.op = "add_ammonia" /\ Args.wrap
    /\ TheAnchor = <<Q(6), Q(-2), Half>>
    /\ lattice_cart(In).v = <<V3(10, 0, 0), V3(0, 10, 0), V3(0, 0, 10)>>
    /\ \E i \in DOMAIN call.added :
          /\ call.added[i].sym = <<"N">>
          /\ call.added[i].f = <<Rat(6, 10), Rat(8, 10), Rat(1, 20)>>

\* The last insertion done as a merge of the same (species, position) atoms
AsMerge ==
    merge_ions_into_poscar(In,
        [k \in DOMAIN AtomsGiven |->
            PdbAtom(AtomsGiven[k].sym, AtomsGiven[k].xyz[1], AtomsGiven[k].xyz[2],
                    AtomsGiven[k].xyz[3])],
        Args.wrap, Args.new_flags, Args.framework_flags)

WasRead == call.op \in {"read_poscar", "read_back"} /\ call.err = ""
\* The line of the counts, and the first coordinate line, of `file`
CountsAt == IF \A i \in DOMAIN file[6] : file[6][i].k = "i" THEN 6 ELSE 7
FirstCoordAt == CountsAt + (IF Out.has_selective THEN 3 ELSE 2)
CoordLineOf(i) == file[FirstCoordAt + i - 1]
StartsWithT(tok) == tok.k = "w" /\ tok.w[1] \in {"T", "t"}

\* C21: a structure read with has_selective has one flags entry per atom,
\* in the order of the atoms: the flags of tokens 4-6 of the line of the
\* atom (true for a token that starts with T or t) when the line has at
\* least 6 tokens, (True, True, True) when it has fewer.
C21_FlagsPerAtom ==
    (WasRead /\ Out.has_selective) =>
        /\ Out.flags.some
        /\ Len(Out.flags.v) = Len(Out.frac_coords)
        /\ Len(Out.flags.v) = SumSeq(Out.counts)
        /\ \A i \in DOMAIN Out.flags.v :
              Out.flags.v[i] = IF Len(CoordLineOf(i)) >= 6
                               THEN [k \in 1..3 |-> StartsWithT(CoordLineOf(i)[k + 3])]
                               ELSE TTT

\* The lines of `file` up to the counts line are there and well formed: a
\* counts line of integers, or a symbols line over at least as many counts.
AllInts(line) == \A i \in DOMAIN line : line[i].k = "i"
WellHeaded ==
    /\ Len(file) >= 6 /\ file[6] # <<>> /\ Len(file) >= CountsAt
    /\ CountsAt = 7 => (AllInts(file[7]) /\ Len(file[6]) >= Len(file[7]))
FirstLetter(line) == IF line = <<>> \/ line[1].k # "w" THEN "" ELSE line[1].w[1]
SelectiveAt(i) == Len(file) >= i /\ FirstLetter(file[i]) \in {"S", "s"}
\* The line of the coordinate type, and the number of atoms announced
TypeAt == CountsAt + (IF SelectiveAt(CountsAt + 1) THEN 2 ELSE 1)
AtomsAnnounced == SumSeq([i \in DOMAIN file[CountsAt] |-> file[CountsAt][i].q[1]])
\* The three ways `file` can end early
EndsAfterCounts == WellHeaded /\ Len(file) = CountsAt
EndsAfterSelective == WellHeaded /\ SelectiveAt(CountsAt + 1) /\ Len(file) = CountsAt + 1
EndsInCoordinates ==
    /\ WellHeaded /\ Len(file) >= TypeAt
    /\ FirstLetter(file[TypeAt]) \in {"D", "d", "C", "c", "K", "k"}
    /\ Len(file) - TypeAt < AtomsAnnounced
\* The scaled lattice of `file` has an inverse.
LatticeOfFile == [r \in 1..3 |-> [c \in 1..3 |-> file[r + 2][c].q]]
FileCellInvertible == RLt(Q(0), file[2][1].q) /\ det3(LatticeOfFile) # Q(0)

\* C23: read_poscar on a file (over a lattice that has an inverse) that ends
\* after the counts line, after the `Selective dynamics` line, or before
\* sum(counts) coordinate lines, raises the error of a file cut short (a
\* ValueError: the file is too short, or ends while the coordinates are
\* read) and returns no structure.
C23_Truncated ==
    (call.op = "read_poscar" /\ FileCellInvertible
        /\ (EndsAfterCounts \/ EndsAfterSelective \/ EndsInCoordinates)) =>
        /\ call.err \in {"TooShort", "TruncatedFile"}
        /\ ~p.some

\* Line 6 of `file` is a symbols line: not blank and not all integers.
SymbolsLine == Len(file) >= 8 /\ file[6] # <<>> /\ ~AllInts(file[6])
LabelAt(i) == _normalize_element(IF file[6][i].k = "w" THEN file[6][i].w ELSE <<>>)

\* C24: read_poscar on a file with a symbols line fails (missing counts
\* line) when the next line has a token that is not an integer, fails
\* (symbol/count mismatch) when it has more counts than symbols, and else
\* goes on with the counts of that line and the first len(counts) symbols;
\* a structure read with symbols has as many symbols as counts.
C24_SymbolsAndCounts ==
    /\ (call.op = "read_poscar" /\ SymbolsLine) =>
          /\ ~AllInts(file[7]) => (call.err = "MissingCountsLine" /\ ~p.some)
          /\ (AllInts(file[7]) /\ Len(file[6]) < Len(file[7])) =>
                (call.err = "SymbolCountMismatch" /\ ~p.some)
          /\ (AllInts(file[7]) /\ Len(file[6]) >= Len(file[7])) =>
                /\ call.err \notin {"MissingCountsLine", "SymbolCountMismatch"}
                /\ call.err = "" =>
                      /\ Out.counts = [i \in DOMAIN file[7] |-> file[7][i].q[1]]
                      /\ Out.symbols = [i \in DOMAIN file[7] |-> LabelAt(i)]
    /\ (WasRead /\ Out.symbols # <<>>) => Len(Out.symbols) = Len(Out.counts)

\* A file with the symbols line `Si o H` over the counts `1 1` was read:
\* the structure has the symbols Si, O and the counts 1, 1.
C24_Witness ==
    /\ call.op = "read_poscar" /\ call.err = "" /\ SymbolsLine
    /\ Len(file[6]) = 3 /\ Len(file[7]) = 2
    /\ Out.symbols = <<Chars("Si"), Chars("O")>> /\ Out.counts = <<1, 1>>

\* The scaled lattice exists and its determinant is zero: dependent rows
\* under a positive scale, or any cell of positive volume scaled to the
\* target volume 0.
ScaledDetZero(scale, lattice) ==
    \/ RLt(Q(0), scale) /\ det3(lattice) = Q(0)
    \/ scale = Q(0) /\ RLt(Q(0), det3(lattice))
\* `file` is well formed up to its coordinate-type line.
TypedFile ==
    /\ Len(file) >= 8 /\ WellHeaded /\ Len(file) >= TypeAt
    /\ FirstLetter(file[TypeAt]) \in {"D", "d", "C", "c", "K", "k"}
\* The errors an insertion raises before it converts any coordinate
BeforeConversion ==
    {"NoHeader", "NoMatchingAtoms", "NoNAtom", "UnexpectedAtomCount",
     "InvalidPlacement", "DegenerateSegment"}

\* C25: over a lattice whose scaled determinant is zero, read_poscar of a
\* file well formed up to its coordinate-type line (Direct or Cartesian), a
\* merge of at least one atom, and an insertion whose template and placement
\* are accepted, raise the singular-matrix error and return no structure.
C25_SingularLattice ==
    /\ (call.op = "read_poscar" /\ TypedFile
           /\ ScaledDetZero(file[2][1].q, LatticeOfFile)) =>
          (call.err = "SingularMatrix" /\ ~p.some)
    /\ (call.op = "merge" /\ ScaledDetZero(In.scale, In.lattice) /\ Args.ions # <<>>) =>
          (call.err = "SingularMatrix" /\ p = call.inp /\ ~call.refs.v.out.some)
    /\ (call.op \in {"add_ammonia", "add_hydrogen"} /\ ScaledDetZero(In.scale, In.lattice)) =>
          /\ call.err \in BeforeConversion \cup {"SingularMatrix"}
          /\ p = call.inp /\ ~call.refs.v.out.some
    /\ (call.op = "add_hydrogen" /\ ScaledDetZero(In.scale, In.lattice)
           /\ Args.def = H2Def /\ Args.place = "first") => call.err = "SingularMatrix"
    /\ (call.op = "add_ammonia" /\ ScaledDetZero(In.scale, In.lattice)
           /\ Args.def = NH3Def /\ Args.place = "first") => call.err = "SingularMatrix"

\* A hydrogen insertion with an accepted template at point1 into a cell of
\* scale 2 whose lattice rows are dependent has raised the singular-matrix
\* error.
C25_Witness ==
    /\ call.op = "add_hydrogen" /\ call.err = "SingularMatrix"
    /\ In.scale = Q(2) /\ det3(In.lattice) = Q(0)
    /\ Args.place = "first"
    /\ p = call.inp

\* The template of the last insertion: the line of its header (0 when it has
\* none), the lines after the header up to the first blank or comment line,
\* and among them the rows `index name x y z` whose name has a prefix the
\* operation keeps
HeaderAt ==
    IF \E i \in DOMAIN Args.def : IsHeader(Args.def[i])
    THEN CHOOSE i \in DOMAIN Args.def :
            IsHeader(Args.def[i]) /\ \A j \in 1..(i - 1) : ~IsHeader(Args.def[j])
    ELSE 0
EndsBlock(line) == line = <<>> \/ (line[1].k = "w" /\ line[1].w[1] = "#")
BlockEnd ==
    IF \E j \in (HeaderAt + 1)..Len(Args.def) : EndsBlock(Args.def[j])
    THEN CHOOSE j \in (HeaderAt + 1)..Len(Args.def) :
            EndsBlock(Args.def[j]) /\ \A k \in (HeaderAt + 1)..(j - 1) : ~EndsBlock(Args.def[k])
    ELSE Len(Args.def) + 1
IsRow(line) == Len(line) >= 5 /\ \A c \in 3..5 : line[c].k \in {"i", "f"}
HasPrefix(line, pre) ==
    line[2].k = "w" /\ Len(line[2].w) >= 2 /\ SubSeq(line[2].w, 1, 2) = pre
RowsOf(pre) ==
    { j \in (HeaderAt + 1)..(BlockEnd - 1) : IsRow(Args.def[j]) /\ HasPrefix(Args.def[j], pre) }
NRows == IF call.op = "add_ammonia" THEN RowsOf(<<"N", "_">>) ELSE {}
HRows == RowsOf(<<"H", "_">>)

\* C22: an insertion fails, and returns no structure, with the missing-
\* header error when the template has no header line, and with the
\* no-matching-atoms error when no row after the header (up to the first
\* blank or comment line) has a prefix the operation keeps (N_ and H_ for
\* ammonia, H_ for hydrogen); add_hydrogen_to_poscar fails with the
\* atom-count error when the H_ rows are not exactly 2; an insertion that
\* returns has added one atom per row kept, N for an N_ row and H for an H_
\* row, and none for any other row.
C22_TemplateErrors ==
    call.op \in {"add_ammonia", "add_hydrogen"} =>
        /\ HeaderAt = 0 => call.err = "NoHeader"
        /\ (HeaderAt # 0 /\ NRows \cup HRows = {}) => call.err = "NoMatchingAtoms"
        /\ (call.op = "add_hydrogen" /\ HeaderAt # 0 /\ Cardinality(HRows) \notin {0, 2}) =>
              call.err = "UnexpectedAtomCount"
        /\ call.err # "" => (p = call.inp /\ ~call.refs.v.out.some /\ call.added = <<>>)
        /\ call.err = "" =>
              /\ Len(call.added) = Cardinality(NRows) + Cardinality(HRows)
              /\ Cardinality({i \in DOMAIN call.added : call.added[i].sym = <<"N">>})
                    = Cardinality(NRows)
              /\ Cardinality({i \in DOMAIN call.added : call.added[i].sym = <<"H">>})
                    = Cardinality(HRows)

\* add_hydrogen_to_poscar on the template with the rows N_1, H_1, H_2, H_3
\* has raised the atom-count error.
C22_Witness ==
    /\ call.op = "add_hydrogen" /\ call.err = "UnexpectedAtomCount"
    /\ HeaderAt = 1 /\ Cardinality(HRows) = 3
    /\ p = call.inp

\* C26: read_poscar stores the first line of the file as it is, blanks at
\* either end included; a merge or an insertion that returns keeps the
\* comment of its input; write_poscar writes the comment as the first line.
C26_CommentVerbatim ==
    /\ WasRead => Out.comment = file[1]
    /\ Returned => Out.comment = In.comment
    /\ (call.op = "write_poscar" /\ call.err = "") => file[1] = Out.comment

\* The template of the last insertion is one the operation accepts: a
\* header, and an N_ row for ammonia, exactly two H_ rows for hydrogen.
TemplateFits ==
    /\ HeaderAt # 0
    /\ IF call.op = "add_ammonia" THEN NRows # {} ELSE Cardinality(HRows) = 2

\* C27: an insertion, ammonia or hydrogen, called with a place other than
\* midpoint, first and second raises an error and returns no structure: the
\* invalid-placement error when its template is accepted, the error of the
\* template otherwise.
C27_InvalidPlacement ==
    (call.op \in {"add_ammonia", "add_hydrogen"}
        /\ Args.place \notin {"midpoint", "first", "second"}) =>
        /\ TemplateFits => call.err = "InvalidPlacement"
        /\ ~TemplateFits =>
              call.err \in {"NoHeader", "NoMatchingAtoms", "NoNAtom", "UnexpectedAtomCount"}
        /\ p = call.inp /\ ~call.refs.v.out.some /\ call.added = <<>>

\* add_ammonia_to_poscar with an accepted template and the place `Midpoint`
\* has raised the invalid-placement error on a structure read from a file.
C27_Witness ==
    /\ call.op = "add_ammonia" /\ call.err = "InvalidPlacement"
    /\ Args.place = "Midpoint" /\ TemplateFits
    /\ file # <<>> /\ p = call.inp

\* The record type of line i of the file read, and its MODEL records
RecAt(i) == [k \in DOMAIN call.lines[i].rec |-> ToUpper(call.lines[i].rec[k])]
ModelLines == { i \in DOMAIN call.lines : RecAt(i) = Chars("MODEL") }
NthModel(k) == CHOOSE i \in ModelLines : Cardinality({j \in ModelLines : j < i}) = k - 1
\* The record that closes the frame opened at line m: the next ENDMDL or
\* MODEL record, or the end of the file
ClosedAt(m) ==
    IF \E j \in (m + 1)..Len(call.lines) : RecAt(j) \in {Chars("MODEL"), Chars("ENDMDL")}
    THEN CHOOSE j \in (m + 1)..Len(call.lines) :
            /\ RecAt(j) \in {Chars("MODEL"), Chars("ENDMDL")}
            /\ \A k \in (m + 1)..(j - 1) : RecAt(k) \notin {Chars("MODEL"), Chars("ENDMDL")}
    ELSE Len(call.lines) + 1
FrameOf(m) == AtomRecords(SubSeq(call.lines, m + 1, ClosedAt(m) - 1))

\* C28: from a file with MODEL records read_pdb_last_frame builds one frame
\* per MODEL record, each with the atoms of the ATOM and HETATM records
\* between its MODEL record and the record that closes it, in file order,
\* and no others; the frame returned for an index i >= 0 is that of the
\* (i+1)-th MODEL record.
C28_FramesByModel ==
    (call.op = "read_pdb_last_frame" /\ ModelLines # {}) =>
        /\ FramesRead = [k \in 1..Cardinality(ModelLines) |-> FrameOf(NthModel(k))]
        /\ (call.err = "" /\ call.index >= 0) => call.out = FrameOf(NthModel(call.index + 1))

\* C29: a merge or an insertion made on a structure with has_selective
\* leaves the caller with a structure that has has_selective and flags, so
\* that along a chain of calls selective dynamics, once on, stays on.
C29_SelectiveStays ==
    [][(p.some /\ p.v.has_selective /\ call'.op \in EngineOps) =>
          (p'.some /\ p'.v.has_selective /\ p'.v.flags.some)]_vars

\* The file read has no `Selective dynamics` line; the first call of the
\* chain switched selective dynamics on, and the second call, made without
\* any flags, has returned a structure with selective dynamics and a flags
\* entry for every atom.
C29_Witness ==
    /\ Returned /\ nops = 2
    /\ ~SelectiveAt(CountsAt + 1)
    /\ ~call.new_flags.some /\ ~call.framework_flags.some
    /\ In.has_selective /\ Out.has_selective /\ Out.flags.some
    /\ Len(Out.frac_coords) > Len(In.frac_coords)
    /\ Len(Out.flags.v) = Len(Out.frac_coords)

\* C30: a merge or an insertion that returns leaves the framework as it was:
\* comment, scale, lattice and coord_type are those of the input, the
\* coordinates of the input are the first coordinates of the result, in the
\* same order and not wrapped, the symbols of the input are the first
\* symbols of the result, and no counts entry of the input has decreased.
C30_FrameworkUntouched ==
    Returned =>
        /\ Out.comment = In.comment /\ Out.scale = In.scale
        /\ Out.lattice = In.lattice /\ Out.coord_type = In.coord_type
        /\ Len(Out.frac_coords) >= Len(In.frac_coords)
        /\ SubSeq(Out.frac_coords, 1, Len(In.frac_coords)) = In.frac_coords
        /\ Len(Out.symbols) >= Len(In.symbols)
        /\ SubSeq(Out.symbols, 1, Len(In.symbols)) = In.symbols
        /\ Len(Out.counts) >= Len(In.counts)
        /\ \A k \in DOMAIN In.counts : Out.counts[k] >= In.counts[k]

\* A call with wrap has added atoms to a structure with an atom at the
\* fractional coordinate 1, outside [0,1): the atom is where it was, and a
\* counts entry of the input has grown.
C30_Witness ==
    /\ Returned /\ call.wrap
    /\ Len(Out.frac_coords) > Len(In.frac_coords)
    /\ \E i \in DOMAIN In.frac_coords :
          In.frac_coords[i][1] = Q(1) /\ Out.frac_coords[i] = In.frac_coords[i]
    /\ \E k \in DOMAIN In.counts : Out.counts[k] > In.counts[k]

====
